# gachinol in TLA+

gachinol is a broadcasting platform for villages: reporters, residents and live
streams bring in video, a pipeline of queue jobs processes and edits it, people
review it, and it is distributed to channels (the app, YouTube, KakaoTalk, ...)
and watched in a web app. This directory holds TLA+ modules of its logic, from
the content's life cycle to the nightly backups, the TLC configurations that
model-check them, and proofs checked by TLAPS.

`services/api` (NestJS, Postgres through Prisma, BullMQ on Redis) is the only
writer of the database. Everything below about atomicity rests on two facts of
it: one Prisma statement or `$transaction` is one step, and whatever stands
between two `await`s may be interleaved with any other request, job
announcement or crash. The database and the queue have no common transaction.
In the apps, a step is what runs between two awaits, renders or callbacks.

## 1. Inventory

| component | state | operations | interacts with |
|---|---|---|---|
| Content life cycle (`packages/shared/src/content`) | none: 23 statuses, the transition map, retry targets, review policy | `canTransitionContent`, `CONTENT_RETRY_TARGET`, `previewReviewTarget` ... | everything |
| ContentWorkflowService (`api/contents`) | `contents` row, audit, `revision_requests` | approve, requestRevision, reject, cancel, regenerate, retry, transition, upload hops, applySystemTransition, cancelBySystem | controllers, pipeline, resident review |
| Draft editing (`api/contents`, reporter app) | the wizard, forms, the row | createDraft, update, updateCaptions | the row's status |
| Upload (`api/upload`, reporter app) | original `media_assets` row, object store | issue, complete, multipart, abort, recoverStalled | workflow, transcode queue |
| Resident upload links (`api/resident-links`, subscriber app) | link slots, `resident_uploads` | createUpload, completeUpload, the page's gate and uploader | contents, review |
| Resident review gate (`api/resident-links`) | `resident_uploads.status` | approve, reject; the gate on `uploaded -> processing` | workflow, media queue |
| PipelineService, media and analysis (`api/pipeline`, `queue`, `analysis`, `media`) | jobs in two queues, `media_assets` | onActive, onCompleted, onFailed, the producers, the boot scans | workflow, workers |
| media-worker | slots, work directories, the objects it writes | transcode, thumbnail, auto_edit, preview | the media queue, object store |
| Distribution (`api/distribution`, `contents/distribution-orchestrator`) | `publications`, the distribution queue, the channels | distribute, startAutoDistribution, retryPublication, retractPublication, the in-process worker, its handlers | workflow, channels |
| Public media copies (`api/media/public-media`) | copies in a public bucket, the edge's cache | copy after publish, remove after archive | workflow's hooks, feed |
| Feed, go links (`api/feed`, `api/go-link`) | none, an edge cache | list, playback, the short link's page and thumbnail | contents |
| Recommendations (`api/recommendations`) | a row per week with generation and status | generate, review, regenerate, reconcile, recover stuck ones | its queue, the center's screens |
| Live sessions and chat (`api/live`) | session, comments, rooms, presence | start, interrupt, resume, end, collect, push, join, send, hide | sockets, the apps |
| Authentication tokens (`api/auth`) | refresh tokens and families, a cookie | rotate, reuse detection, logout | both authenticated apps |
| Stations (`api/stations`) | station, its log | create, edit, transition | the center's form |
| Telemetry (`api/telemetry`) | rollups, rate limits | ingest | the reporter app's batches |
| DCP arbiter (`api/arbiter`) | the pause of the media queue, in Redis | poll, stream, hold, resume, stop | DCP (external), the reporter's banner |
| reporter, control-center and subscriber apps | caches, forms, screens, timers, a service worker | queries, mutations, navigation | api, sockets |
| `infra/scripts`, `.github/workflows` | runs, images, the schema, reports | deploy, roll back, probe, monitor, static gates | production |
| `infra/backup` | dumps and copies | dump, send, verify, prune, sync | bucket, NAS |

What is hard in this code:

* **Load, judge, commit.** Every operation judges a row it has loaded outside a
  transaction and then updates it `WHERE status = <loaded>`. Guards that depend
  on anything but the status are not repeated at the commit, and the status alone
  does not tell a row from an earlier visit to the same status (ABA).
* **Two stores.** The content is moved in Postgres, then a job is added in
  Redis. Either half may be lost.
* **Announcements are not durable.** BullMQ events that find the api down are
  gone. The boot scan replays *every finished job the queue still has* through
  the very handlers, whatever happened since.
* **A job is named by type and generation** (a distribution job by its set of
  publications), and its former outcome stays in the queue until it is added
  again.
* **Handlers are sequences of awaits**: store the output, move the content, add
  the next job, resolve requests; read all publications, then move the content;
  push to the prompter, then mark the comments.
* **Hooks after commits**: copies to the public bucket and their removal are
  fired and not awaited.
* **Screens are copies.** A screen judges what it offers by a cached row, its
  requests are answered late, twice or never, and lists are paged by offset
  while rows move.
* **Shared secrets rotate.** Tabs and callers share one refresh token that is
  replaced each time it is used, and using a replaced one closes the session.
* **Operations break off half-way**: a deployment after some services, a backup
  between two dumps, a paused queue whose api has died.

What can go wrong is listed line by line under `hazards` in `PROJECT.json`, with
the property that would catch it or the reason there is none.

## 2. Modules

Modules are one per component. A component's invariants and action properties
are named in its own module; the `MC_*` modules put components that share no
state side by side (a behaviour has a `focus` and moves one of them, so the state
space is the sum and not the product), and state themes, conjunctions of the
components' named properties. That keeps one run per part of the system.

| module | models | run |
|---|---|---|
| `ContentStatus` | shared statuses, map, retry targets, review policy: constant operators | used by the state machines |
| `ReleaseControl` | nothing in the code: the abstract promise of stages, versions, sign-offs | refined by `workflow` |
| `ContentWorkflow` | ContentWorkflowService, the resident gate and decision: one content, concurrent requests | `workflow` |
| `Pipeline` | the media and analysis side of PipelineService, producers, boot scans: one content, two queues | `pipeline`, `pipeline_faults`, `pipeline_stale_completion` |
| `Distribution` | distribution service, worker, handlers, boot scan: one content, several channels | `distribution*` |
| `Upload` | the reporter's uploader and the upload handlers: attempts, keys, parts, recovery | `upload` |
| `ResidentUpload` | a link's slots, completions, contents and the branch's decisions | `upload` |
| `ResidentPage` | the subscriber app's upload page: gate, form, uploader | `clients` |
| `PartUpload` | the pool of parts of one large upload | `apps` |
| `ContentScreens` | the content's detail screens of both apps | `apps` |
| `Sessions` | refresh rotation and an app's single-flight refresh | `apps` |
| `Telemetry` | batches, retries, rate limits, rollups | `apps` |
| `LiveSession` | commands on a session, the comment collector | `services` |
| `LivePrompter` | the prompter over its room | `services` |
| `LiveChat` | messages, rooms, presence, the viewers' page | `services` |
| `PublicMedia` | public copies, their record, edge and settings | `services` |
| `PublicReading` | a reader of the feed; a short link behind a cache | `services` |
| `ContentDrafts` | the wizard, the edit and captions screens, the row | `services` |
| `Stations` | a station, its log, its administrators' screens | `services` |
| `WeekScreens` | the center's screens over a week's ranking | `services` |
| `Recommendations` | generation jobs, handlers, reconciliation | `operations` |
| `Deploy` | the deployment workflow and its rollback decision | `operations` |
| `Monitor` | the hourly check, over `Deploy` | `operations` |
| `Arbiter` | the gate between DCP and the media queue | `operations` |
| `Probes` | smoke and media probes of a deployment | `clients` |
| `Viewing` | a viewer's pages of a broadcast and of a video | `clients` |
| `LiveForm` | the form that creates a session | `clients` |
| `WebSession` | the operator's session in tabs that share a cookie | `clients` |
| `SubscriberApp` | the service worker's updates; the programme page and its clock | `clients` |
| `Boards` | lists paged by offset, their caches and decisions | `clients` |
| `MediaWorker` | the media-worker's runs; what the edit makes of a recording | `clients` |
| `Backup`, `RoleGate` | the nightly scripts; the gate of the controllers | `clients` |
| `ContentWorkflow_proofs`, `Pipeline_proofs`, `Distribution_proofs`, `Upload_proofs`, `Apps_proofs`, `Services_proofs`, `Clients_proofs`, `Pages_proofs` | theorems | |

### ContentWorkflow

`status`, `generation`, `origin`, `reviewPolicy` are columns. `signed` dates
`approvedByUserId` and the audit log: the generation each side last approved.
`revised` is the generation of the last `revision_requests` row. `review` is the
resident upload's status, `lastTx` the audit rows the last transaction wrote,
and `request` the snapshot every running request has loaded.

* `Load(r)` is `load()` plus every guard of the operation, judged on the
  snapshot: role and ownership, `assertAllowed`, the policy guard. `Allowed`
  lists the operations, one operator each (`Approve`, `Retry`, `Transition` ...).
* `CommitReporterApproval(r)` and `CommitHop(r)` are the transactions,
  `HopApplies` the conditional `updateMany` of `applyHop` and the resident gate
  inside it, `Conflict(r)` its 409.
* `SystemTransition` is `applySystemTransition` on the edges PipelineService
  asks for. Both a different status at its load and a lost update are a no-op,
  so load and commit are one step.
* `ReviewApprove` and `ReviewReject` are the branch's decision; the rejection
  and `cancelBySystem` share a transaction.
* `Crash` loses the running requests.

`ReleaseControl` is the promise without the 23 statuses: *work, review, rework,
release, aired, closed*; sign-offs belong to a version, a new version starts with
none, and a release needs all that are required. `Control` is the refinement
mapping, `ImplementsReleaseControl` the property.

### Pipeline

One job per `<<type, generation>>` with its state in the queue, the attempts it
made and the source it was given. `events` are announcements under way, `tasks`
what handlers and requests have still to do, `assets` the rows of
`media_assets` together with what each was made from.

* A handler is three steps, where its awaits are: `Deliver` (look the job up,
  `upsertOutput`, read the content), `HopStep` (the chain of system transitions),
  `EnqueueStep` (the next job), and for a regeneration `ResolveStep`
  (`resolveRevisionRequests`). A crash may fall between any two.
* `Retry` and `Regenerate` commit; `Reload` reads the row again after the commit
  and says which job to add (`requeueForStatus`).
* `Add` is `remove(jobId)` and `add(jobId)`: neither touches a job a worker
  holds. `SourceOf` is the choice of the source the producers make.
* `Crash`, `Boot`, `ScanJob`, `ScanPhase` are the loss of process state and
  the two boot scans, completed jobs first and then failed ones, each job
  through its handler to the end before the next.
* `Start`, `Succeed`, `Fail` are the workers and the queue (external; what a job
  of the media-worker does inside is `MediaWorker`).

Each queue has its own number of attempts (`MEDIA_JOB_ATTEMPTS`,
`AI_ANALYSIS_JOB_ATTEMPTS`). The run `pipeline` has two generations and no
crash; `pipeline_faults` has one generation and an api that dies at any step.

### Distribution

`pub` are publication rows, `onAir` what viewers see (external), `job` the
distribution queue keyed by the set of publications (`PublishJobId`).

* `Distribute` and `AutoDistribute` create publications; `EnqueueStep` adds the
  job after the commit and may fail if `RedisFails`; its channels are then
  `unsent`.
* `RetryPublication`/`CommitRetryPublication` are the load and the transaction of
  a channel's retry, the second judging the content by the status the first saw;
  `Retry`/`Reload`/`RequeueFailed` are the retry of the whole content.
* `Retract`/`TakeDown`/`CommitRetract` are the three parts of
  `retractPublication`.
* `Start`, `Publish`, `Break` are the in-process worker: one result per channel,
  a channel's failure is data, a failed job is one that broke.
* `Deliver` records results (`Resolved`, `Begun`), `Summarize` sums up *all*
  publications, `Hop` moves the content: three awaits, three steps.
* `Crash` gives a running job back to the queue, after some of its posts.

### Files that come in: Upload, PartUpload, ResidentUpload, ResidentPage

`Upload` has both sides of one protocol. A `client` is an attempt on the upload
screen (ask for a url, put, complete; cancel; the fallback in which a failed put
still reports completion and the server misses the object), a `request` a handler
under way with what it has read. `bucket` is the object store with the attempt
whose bytes each key holds. `UpsertOriginal`, `SweepOriginals`, `BeginUpload`
are the issue, `CheckOriginal`, `CompleteMultipart`, `HeadObject`, `MarkReady`,
`CompleteUpload`, `EnqueueTranscode` the completion, await by await; `Recover` is
the stall recovery; an answer may be lost while its request runs on, and a
request may die.

`PartUpload` is the pool inside `uploadMultipart`: workers take parts from a
shared cursor, a part fails or is tagged, a failure or a cancellation aborts the
rest, progress is a sum over parts.

`ResidentUpload` has a link's counter, its uploads and their contents.
`Claim` is the conditional `usedCount` update, `HeadObject` and `Accept` the two
halves of `completeUpload`, `Decide` the branch's decision with `EnterPipeline`
and `EnqueueTranscode` after its commit. `ResidentPage` is the other side of
the same calls: the query of the link, `Gate` (what its answer shows), the form
and `putVideo`, which goes on when the form is gone.

### Recommendations and WeekScreens

`week` is the row, `job` the queued ranking of a generation, `handler` the api
processes that `Hear` of its end, by its announcement or at their boot, and as
often as they like; each applies the outcome in the code's steps
(`ReadForResult`, `StoreItems`, `ReachReview`, `ResolveRequests`). `ComputeInline`
is the fallback when the queue is not there, `EnqueueOverLeftover` the removal
before an add, `RecoverStuck` the restart of a generation that hangs. `WeekScreens` takes the row's moves from there
and adds the center's tab and detail screen: copy, poll, press, answer.

### Sessions and WebSession

`Sessions` is the reporter app: an access token, `inflight` (the one refresh its
callers share), the store, and on the server `ReadToken`/`SwapToken`, the two
halves of a rotation that several requests may be in. `WebSession` is the
control center in tabs: each has its access token, the refresh token is in a
cookie that is read when a request leaves and written when its answer arrives.

### Live sessions

`LiveSession` has the operators' commands in the code's two steps (load and
update, then the collector), and `Collect`: poll, record, push, mark.
`LivePrompter` and `LiveChat` are rooms: a join reads while messages are sent, a
page's connection keeps order and breaks, presence is counted per socket. The
prompter's hook joins in two round trips, when it is mounted and at each connection:
`EnterRoom`, `ReadRecent` and `Answer` are the handler of `prompter.join`, whose answer
the hook keeps until `control.join` is answered (`AnswerControl`) and shows then, or
never (`Refuse`).
`Viewing` is the viewer's page with its player; `LiveForm` the center's form
against the request's schema.

### Screens, caches and lists

`ContentScreens` has one content, a `shown` copy per screen, a pressed command
with its confirmation, and the api's guards (`Accepts`, taken over from the
workflow service). `Boards` has rows in order, pages fetched by offset under a
filter, and the query library's fetches (external: replaced, cancelled, landing
late). `ContentDrafts` and `Stations` are forms whose requests load, check and
write rows others change; beside the screens' own requests, another client of the api
sends any fields with any number of scenes, the empty list included, which the api takes
as "all captions away". `Viewing` also has one signed URL ageing under a player,
`SubscriberApp` the browser's workers (external) and the policy that reloads pages, and
the programme page, which is drawn for the clock of its visit.

### Public copies, feed, links

`PublicMedia` has the two hooks as interleaved tasks with a failure or a restart
at any step, and an `edge` that keeps what it served. `PublicReading` has a cursor over
`(publishedAt, id)` with ties, and the short link's page and thumbnail redirect
behind `Cache-Control` times: fresh, stale while revalidating, stale on error.

### Media-worker

`MediaWorker` follows the four processors of one content through two slots: take,
download, encode under a watchdog, measure, upload, report; a lock may be lost
while its holder works on, a stop waits for the slots. Beside it stands what the
edit makes of a recording: box, rendition, key frames, thumbnail instant,
segments and the timeline the api judges.

### Operations

`Deploy` follows `build-images.yml` and `deploy-rollback.mjs`: record the running
versions, migrate, bring services up, verify, decide (accept, roll back, escalate
because a migration stands in the way), verify again; runs of later pushes queue
and cancel. `Monitor` EXTENDS it with the hourly check that reads runs, versions
and media one after the other. `Arbiter` has the service's triggers (poll,
stream, boot), its single-flight `Refresh` with `again`, and the queue's answer,
which may be lost. `Probes` is the probe's order of reads against contents that
move. `Backup` runs the two scripts step by step with `pg_dump` and `rsync` that
may break off. `RoleGate` types a controller line by line and scans it as the
script does.

### How they fit together

`ContentWorkflow` has every operation on a status and lets the system hop at any
time: it does not know about jobs. `Pipeline` and `Distribution` take the
users' hops that matter to them as single steps (the load/commit race is
`ContentWorkflow`'s subject, and a lost race changes nothing) and add jobs,
handlers, crashes and scans. Every hop of theirs is one that `ContentWorkflow`
allows: they use the same statuses, and their edges are among `SystemEdge` and
the operations. The generic `transition` of operators appears only in
`ContentWorkflow`; in the other two it would void, by hand, what their
properties say about stages.

`Upload` ends where `Pipeline` begins: *uploaded* with a transcode in the queue,
which is `UploadedIsTranscoded`. `ResidentUpload` ends at the same place through
the branch's approval. `MediaWorker` opens what `Start`, `Succeed`, `Fail` of
`Pipeline` are. `PublicMedia` starts from the commits to *published* and
*archived*. `ContentScreens` and `Boards` see the rows the workflow moves;
`WeekScreens` sees what `Recommendations` promises of a generation. `Monitor` is
composed with `Deploy` in one state machine; `Arbiter`'s pause is what keeps
`Pipeline`'s workers waiting, which fairness of the workers takes to end
(`QueueRunsAgain`).

## 3. Runs

| run | what moves | properties |
|---|---|---|
| `workflow` | two requests, system hops, resident review, crashes, two generations | `ReleasedIsSignedOff` (no release without the sign-offs its origin and policy call for, in the generation that goes out), `CenterReviewsApprovedWork`, `ApprovalIsNeverHalfDone`, `ResidentGate`, `RejectedUploadIsClosed`, `RevisionIsOnRecord`, `AuditTrailJoinsUp`, `ImplementsReleaseControl` |
| `pipeline` | one content to its review and through a regeneration, users' retries | `ReviewSeesTheEdit` (the preview is made from this generation's edit), `WorkIsBacked` (a working stage has a job, an outcome under way or somebody about to add one), `RevisionsAreClosed`, `FailedMeansStopped` (a failed stage has no job still waiting or running), `StagesEnd` |
| `pipeline_faults` | users' retries, and an api that dies at any step and scans | `OutcomesArrive` |
| `pipeline_stale_completion` (violation) | a restart during a regeneration | `ReviewSeesTheEdit` |
| `distribution` | two channels, retries and retractions side by side, enqueues that fail | `PublishedIsComplete`, `FailedMeansStopped`, `RetractedIsOffAir`, `QueuedIsResolved` |
| `distribution_restart` | the same across a crash | `PublishedIsComplete`, `ResultsArrive` |
| `distribution_unreported` (violation) | a channel retry between a summary and its hop | `AllPublishedIsReported` |
| `upload` | attempts, lost answers, a recovery, a dying request; or a link with its residents and its branch | `UploadsAreWhole`, `UploadsEnd`, `LinksHold` |
| `services` | a broadcast, its prompter, its chat; public copies; the feed; a short link; a wizard, a draft; a station; a week's screens | `BroadcastIsFollowed`, `PublicIsPublished`, `WritingIsKept` |
| `apps` | detail screens; an app's session; an upload in parts; usage events | `ScreensAreUsable`, `SessionIsKept`, `PartsBecomeOne`, `EventsAddUp` |
| `operations` | a week's recommendation; deployments; the monitor; the arbiter | `WeekIsReviewed`, `DeploymentIsTrue`, `QueueFollowsDcp` |
| `clients` | thirteen parts around the api | `VisitorsAreServed`, `PagesTellTheTruth`, `MediaIsWhole`, `SafeguardsHold` |

The themes are made of:

* `UploadsAreWhole`: `IssuedIsFindable`, `TranscodeHasObject`, `DoneIsUploaded`.
  `UploadsEnd`: `CompletionNeverStrands`, `AttemptsEnd`, `UploadedIsTranscoded`.
  `LinksHold`: `SlotsHold`, `OneContentPerUpload`, `ReceivedIsOnRecord`,
  `RejectedStaysOut`, `TranscodeHasSource`, `ApprovedIsTranscoded`.
* `BroadcastIsFollowed`: `OnAirIsCollected`, `PushedOnce`, `PostedIsPrompted`,
  `LiveAuditJoinsUp`, `PrompterIsComplete`, `HiddenIsNotShown`, `PageIsComplete`,
  `PresenceIsConnected`. `PublicIsPublished`: `ServedIsThere`,
  `ArchivedIsPrivate`, `FeedIsComplete`, `SeenOnce`, `RedirectIsAlive`,
  `ErrorsHeal`, `ArchivedFades`. `WritingIsKept`: `OneDraftPerWizard`,
  `TopicsFitCategory`, `CaptionsStay`, `ScenesKeepTheirIds`, `TrailTellsTheStatus`,
  `EntriesMove`, `IntroStays`, `StationScreenSettles`, `WeekGoesOn`, `ApprovesWhatIsShown`.
* `ScreensAreUsable`: `OfferedIsAccepted`, `NobodyIsStuck`,
  `DecidedIsWhatWasSeen`, `ScreenCatchesUp`. `SessionIsKept`: `OneLiveToken`,
  `OwnRequestsKeepTheSession`, `RefusedIsOver`. `PartsBecomeOne`:
  `CompleteIsWhole`, `GivenUpIsQuiet`, `ProgressNeverFalls`. `EventsAddUp`:
  `WaitingIsScheduled`, the sum of `Telemetry`, `ArrivedInOrder`, `ViewsAddUp`.
* `WeekIsReviewed`: `ReviewedIsCurrent`, `ResolvedIsReflected`,
  `ApprovedIsFinal`, `GenerationEnds`. `DeploymentIsTrue`: `SchemaNotAhead`,
  `GreenIsDeployed`, `RecoveryIsTrue`, `HeadIsJudged`, `SoundIsQuiet`,
  `NoSilentLoss`. `QueueFollowsDcp`: `GateFollowsDcp`, `StopsRunning`,
  `QueueRunsAgain`, `BannerGoes`.
* `VisitorsAreServed`: `PassIsReachable`, `AlarmHasCause`, `OnePlayerRuns`,
  `RoomFollowsBroadcast`, `FocusRenews`, `OfferedOnce`, `NoForcedReload`,
  `KeepsItsAssets`, `AcceptedIsApplied`, `WeekStartsToday`, `NextLiveIsSoonest`,
  `PlaysOnlyStreams`. `PagesTellTheTruth`: `FormKnowsTheFile`,
  `StoppedIsNotReceived`, `DeadEndIsTrue`, `ViewKnowsItsUploads`,
  `NothingIsSkipped`, `FilterIsKept`, `DecidedLeavesTheList`,
  `SubmittedIsAccepted`, `RefusalIsShown`, `SignOutCloses`, `KeptWhileCalm`.
  `MediaIsWhole`: `PromisedIsStored`, `ChecksumMatches`, `HangIsWatched`,
  `HealthyIsNotKilled`, `NothingLeftBehind`, `StopFinishesItsJobs`,
  `MasterKeepsWhatFits`, `ShotIsInTheVideo`, `TimelineIsTrue`,
  `SilentMeansInPlace`. `SafeguardsHold`: `BucketIsWhole`, `LastBackupStays`,
  `SuccessIsRestorable`, `DeletionIsNotCopied`, `PassMeansGated`,
  `PassMeansNoRot`, `FailHasCause`.

Each component also has one type invariant in its theme. The two violations are
disagreements between the code and its own comments that `findings` in
`PROJECT.json` quote.

### Bounds

Two requests are enough for every race of the conditional update: a request only
meets the row, so a third one looks to the other two like a system hop, which is
free. Two generations are what "approved before, released after a regeneration"
needs; retries of a failed regeneration count up too, so the bound also cuts
those, and `WithinBound` is the guard that does. Two channels give a job with
both, two jobs with one each, and their overlap. One crash is enough to lose any
announcement or task and to run the boot scan at any point. Two attempts of the
analysis queue separate an intermediate failure from the last one. Three retries or retractions
let one channel fail twice while the other is retried or taken back.

Elsewhere the bounds are the least at which the hazard happens, and a mutant of
the code shows that it does:

* `upload`: two attempts on two keys (extensions), one recovery, one lost answer,
  one death; a link with one slot and two residents, so that slots run out.
* `services`: two operators, viewers, editors, administrators; one restart, one
  new setting; four contents that share moments for a page size of one;
  `PresignTtl` no shorter than the shortest the environment can configure is an
  assumption (`ShortestTtl`), for the schema of `DOWNLOAD_URL_TTL_SEC` has none.
* `apps`: two callers, four tokens, two expiries and one mishap; three parts and
  two workers; four events, batches of two and three, a queue of two.
* `operations`: two pushes with two losses (the monitored deployment one of each);
  two handlers and three attempts for two generations; one move of DCP
  and two faults.
* `clients`: two tabs, three builds, two uploads of a page, two slots and two
  attempts, four rows in pages of two, two nights with a retention of one, eight
  lines and two odd ones, six steps of three hours in two time zones.

`CHECK_DEADLOCK FALSE` everywhere: a content that is archived, canceled or
simply waits for a human has nothing to do, and neither has a part that reached
its bounds.

### Fairness

Stated only where liveness is checked, and always weak fairness of what the
program or its runtime does by itself; no user, operator or outside service is
assumed to do anything. `FairSpec` of `Pipeline` and `Distribution`: workers,
delivery of announcements, handlers and requests under way, the boot scan, a
restart (Node's event loop and BullMQ run what they hold, and the process is
supervised). It is weak fairness of "some worker step", not of each: with the
finitely many jobs of one content every one gets its turn before the bounded
users can add another. `MC_Upload`: handlers, transfers, and a connection that
is gone is noticed. `MC_Services`: the collector's timer. `MC_Apps`: a screen's
poll and read; strong fairness of an answer's delivery, for refetching may
disable it over and over, and an answer is lost only finitely often
(`MaxLost`). `MC_Operations`: queues and runners go on, time passes, the
monitor's rounds come and intervals fire; an approval of a deployment does not
(`HeadIsJudged` accepts one that waits).

## 4. Proofs

Eight modules prove theorems, each for every value of its constants. Where TLC
and the prover speak of the same formula, the run shows that its cases happen
and the theorem that no bound hides a counterexample.

### The content workflow (`ContentWorkflow_proofs`)

For every set of requests and origins and every bound on generations, from
`WorkflowAssumption` alone (origins are origins, the bound is a positive
natural):

* `TypeCorrect`, `WorkflowSafe`: the invariant `WorkflowInv`;
* `ReleaseNeedsSignoff`, `CenterComesSecond`, `ResidentsAreReviewed`,
  `RejectionsClose`, `ApprovalsAreWhole`, `ReviewsAreRecorded`: all the safety
  invariants of the `workflow` run;
* `AuditTrail`: the action property;
* `ImplementsControl`: `Spec => Control!Spec`.

None of the safety properties is inductive alone. What carries them is:

* `RequestsStandPermitted`: a request between its load and its transaction still
  satisfies, *for the status it loaded*, every guard it passed, because the
  guards depend on the loaded status and on columns that never change. This is
  why judging a snapshot is safe, and it would fail for a guard on a column that
  moves. The one that moves, the resident review, is checked inside the
  transaction.
* `SignoffsAreDated`: no sign-off is from the future, and `center_approved` has
  the center's of this generation; with it a new generation has no sign-offs.
* `OnlyResidentsAreReviewed`: the gate's `review` belongs to resident content.

The proof that a step keeps the invariant has one step per action; the actions
that hop share a lemma (`HopIsSafe`), the reporter's double hop has its own, and
so has a step that leaves the row alone. The hops are case splits over the edges
of the map, whose facts (`TransitionFacts`) are stated once: what leads
into a released status, into a review, into `regenerating`. The refinement maps
each action to the action of `ReleaseControl` its edge stands for, or to a
stutter.

### The pipeline (`Pipeline_proofs`)

For every number of generations, attempts, retries, edits and crashes, from
`PipelineAssumption`. Crashes included: `TypeCorrect`, and `OnlyGivenUpJobsFail`,
a job is `failed` exactly when its attempts are used up, so that the failure a
handler reads was the last one although the queue announces each.

As long as the api has not crashed (`crashes = 0 =>`): `OneJobAtATime`,
`ReviewersSeeTheEdit`, `StagesAreBacked`, `FailedStagesRest`,
`ReviewsCloseRevisions`. The code has no lock and no version column here; what
keeps an outcome of one stage out of another is a discipline that no line states:

* `OneHand`: the content is in one hand at most: a request or a handler that is
  about to read the row again or to add a job, a job, or the announcement of
  its end with its handler;
* `HandFits`: the hand is of the content's generation and of a stage the content
  is in; a job that is about to be added is not yet in the queue;
* `WorkIsHeld`: a content in a working stage is in a hand; a retry, which only
  failed stages allow, therefore finds none;
* `OpenIsExpected`: a revision request is open only in the rework or while
  somebody is about to close it; `EditsAreStored`: a preview is made from an edit
  that has a row.

A crash ends the discipline: announcements are lost, and the boot scan hands out
finished jobs again while others run. The conclusions fail with it, not only the
proof: `pipeline_stale_completion` shows `ReviewSeesTheEdit` violated after one
crash. That is why the theorems have the premise, which every behaviour meets
until its first crash and the run `pipeline` exercises.

### Distribution (`Distribution_proofs`)

For every set of channels and any number of retries, retractions and crashes.
Crashes included:

* `TypeCorrect`;
* `PublishedContentIsComplete`: it rests on `CompleteIsFinal` (a content that is
  published, *or that a handler that summed the rows up is about to publish*, is
  complete and stays so, because no operation makes a published or retracted row
  pending) and `FirstSend` (before the first send no row has a status);
* `RowsMoveForward`, an action property: rows move only as the operations move
  them.

Without a crash: `OneJobPerPublication` (a publication has one carrier at most and
is pending as long as it has one: every operation that starts a carrier reads a
row that is not pending), and from it `FailedPublicationsRest` and
`RetractedStaysOffAir` (a published row has no carrier, so nothing posts it again
once it is taken down). With one, the boot scan repeats outcomes of former
attempts (section 6).

### Files that come in (`Upload_proofs`)

`BothSpec => []UploadsAreWhole` and `BothSpec => []LinksHold`, from
`UploadAssumption` and `LinkAssumption` (bounds are naturals, the branch is not a
resident). Deaths of requests, lost answers, the stall recovery and the
network's copies are included.

* `UploadsStayWhole` rests on `UploadInv`. Every hop of the content raises `moves`,
  and a request remembers in `seen` the value it loaded; so an issue or a
  completion with `seen = moves` was not overtaken, and its row and its object are
  still as it saw them (`IssueFits`, `CompletionFits`); one that was overtaken finds
  another status at its conditional update, or is the case `raced` marks.
  `OriginalFits` says the same of a content that is uploading or uploaded,
  `AttemptsFit` that requests and screens are of attempts that were made.
* `LinksStayTrue` rests on `LinkInv`. Where a request is says what its upload is
  (`LinkFits`), an upload is created by one request and received by one, unless the
  completions overlap (`AllAlone`), a page that has still to put its file is alone
  with its upload (`PagesFit`), an approval is on its way, in the queue, or lost
  with a request (`CarriedOn`). The slots are the part where no row tells: between
  `updateMany` on the counter and the insertion of the row, and between a failure
  and the release, a slot belongs to the *request*; `Owners` counts rows and those
  requests, and the counter covers the owners (`SlotsOwned`).

The invariants were first checked by TLC, which corrected a property:
`ApprovedIsTranscoded` used to be stated of overlapped uploads as well. With three
decisions of the branch it fails for them: a second completion puts a rejected
upload back into review, an approval loaded earlier is committed, and a repeated
rejection that saw the first one cancels the new content. It now leaves such
uploads out, as its neighbours do.

### The sessions of the apps (`Apps_proofs`)

`Spec => []SessionIsKept`, from `TokenAssumption` (tokens are counted by a
natural), for any number of requests, tokens, expiries and mishaps, lost answers
and restarts included. The invariant `SessionInv` has one part for the api and
one for the app:

* `RowsFit` carries `OneLiveToken`. A rotation reads the row and replaces it in two
  steps, and others may come between; but the replacement is conditional on the row
  being live still, and the successor is new. So whenever a token comes to life in a
  family, the one that was live there has just died (`Issuing`); all other steps only
  kill tokens (`Revoking`, `RowsStay`).
* `AppFits` carries `OwnRequestsKeepTheSession`, while `upset` is false, that is until
  an answer is lost or the user leaves or restarts the app in the middle of a refresh:
  the token in the store, or the one an answer brings, is live, and the api has one
  rotation, of that token, which the app awaits. `ensureFreshTokens` keeps it because
  requests that find their token expired share the refresh under way. The theorem has
  no premise: what is claimed under `~ upset` is written in the property.
* `AskedAgainIsFresh` says why a second 401 means that the user has left.

### Usage events (`Apps_proofs`)

`Spec => []EventsAddUp`, from `UsageAssumption` (finitely many keys; a batch holds an
event, the queue has room for one, and a batch is sent once at least: the code takes
the maximum with 1), for any sizes, attempts and capacity, with lost answers,
refusals and a disposed queue. `UsageInv` has three parts:

* `WaitingFits`: one batch at most is under way or kept for another attempt, so a
  batch is never overwritten, and the sum of the events holds.
* `QueueFits`, `BatchFits`: the batch is older than what waits, and it has arrived as a
  whole or not at all. With it a retry of a batch whose answer was lost adds nothing
  new, and no event overtakes an earlier one, although the queue drops its oldest.
* `RollupFits`: the counts per content and what found no room make up the playbacks.
  The api counts a batch event by event (`Ingest`, a recursion over the batch). That
  the recursion has a result, and what the result is, is proved by the least index at
  which it would fail (`Least`, from the well-foundedness of the naturals), for the
  library's induction theorem itself cannot be instantiated. The sum over contents is
  the cardinality of a set of pairs, one pair per view (`Viewed`), so that it needs no
  recursion of its own.

### What the public sees (`Services_proofs`)

`Spec => []PublicIsPublished`, for any number of contents, moments, restarts and
settings, any page size, buckets and times to live, from `LibraryAssumption` and
`LifetimeAssumption`. The copies, the feed and the short link share no state, so
`PublicInv` has three parts:

* `FeedInv`: what the reader has is above its cursor in the order of the query, and
  what was public when it began, and still is, it has or is below the cursor. A
  content published meanwhile has a later moment and is above every cursor, which
  is why a page neither repeats nor skips a row.
* `LinkInv`: an answer in the cache that has become wrong was made before the
  content's last move (`AnswerFits`), and a kept answer is handed out only for the
  time it was made for; with it go the bounds of `RedirectIsAlive`, `ErrorsHeal` and
  `ArchivedFades`.
* `CopiesInv`: what is on record is in its bucket until the content is archived
  (`RecordIsTrue`), and while nothing went wrong everything public is within what the
  settings select, and a removal goes from selecting to nothing left (`RemovalFits`).

`LifetimeAssumption` has a signature live as long as the shortest redirect. The
code's default does, but its environment accepts a `DOWNLOAD_URL_TTL_SEC` below the
30 seconds that a redirect is kept at least; such a setting is outside the theorem,
and a redirect would then outlive its signature.

### What people write (`Services_proofs`)

`Spec => WritingIsKept`, its invariants and its four action properties, from
`ScenesAssumption` (scenes are counted), for any number of editors, admins, saves,
unanswered creations, writes, generations and lost answers. `WritersInv` has a part
for each writer:

* `WizardInv`: every draft was answered, is the one under way, or is one of those
  whose answer the wizard never got; a wizard that waits has not saved.
* `RowInv`: a request that was checked and waits to be written names the category and
  the topics together or neither, and what it names fits (`Checked`). That is why
  checking against a row that others change is safe: `update` puts the two fields it
  merges into what it writes. Scenes it was given kept the ids of those it loaded and are
  an empty list only if a client sent one (`Given`); scenes it was not given are not
  written.
* `StationInv`: `TrailFits` ties the status and the date of rest to the last log
  entry, also for a row that is not there. A list is no older than the answer after
  which it was fetched, because the answer drops the fetch under way (`ScreenFits`).
  An entry moves the status since `checked` requests have two different ends and the
  row is written only from the first.
* `WeekInv`: as long as nobody else acted and no answer was lost, either the command
  was carried out and its answer is still to come (`Unshown`), or what the screen
  has, what a refetch has read and what an approval looked at ask for a review only
  of the items that are there (`Shown`).

### An upload in parts (`Apps_proofs`)

`Spec => PartsBecomeOne`, from `PartAssumption`, for any number and size of parts
and any number of workers. `PartsFit`: a part that is sent has one worker, a part
below the cursor that is neither sent nor tagged has failed. `PoolFits`: a worker
ends when everything is taken or the pool was stopped, and the pool is stopped by
an error or by the user. So a pool without either has tagged everything when its
workers have ended, and nothing is under way when it fails. The progress is a sum by
recursion; that it follows the parts up is proved by the least part at which it
would not (`TotalsGrow`).

### The detail screens (`Apps_proofs`)

`Spec => ScreensAgree`, which is `ScreensAreUsable` without its liveness
(`ScreenCatchesUp`), from `ScreenAssumption`, for any number of generations and lost
answers. Both parts of its invariant stand under `~ overtaken`. `CopyFits`: a copy in a
status that only a person moves is the row, unless the answer to this screen's own
command, which brings the row, is still to come. `DecisionFits`: while a decision is
confirmed or under way, the row rests in the generation that was looked at. That a
status has a way on is a case split over the map.

### Backups and the gate (`Clients_proofs`)

`Spec => []SafeguardsHold`, from `SavedAssumption`, for any media, retention, days,
nights, entries of the allow list and lines.

* `SavedInv` follows both nightly scripts through their steps. A run that prunes has
  just stored a dump of its own day, which the rotation keeps (`BucketFits`,
  `DumpsFit`); what was in the store when the NAS run began is in its copy, or was
  deleted, once it has synchronised (`CopiesFit`).
* `GateInv` holds after every line of the author's: the scanner is where the author
  is (`AtPlace`), the routes it has found are those written, with their decorators
  (`RoutesFit`), and the verdict follows from them (`VerdictFits`).

### The media-worker (`Clients_proofs`)

`Spec => []MediaIsWhole`, from `MediaAssumption` and `CutAssumption` (attempts and
the watchdog's period are positive; sizes, durations and rates are numbers, and there
is a longest duration), for any slots, attempts, troubles and plans.

* `JobsInv` says of a run, output by output, what it has encoded, measured and stored
  (`OutputFits`), and of an active job that it has its run unless the worker was killed
  (`JobFits`). Two runs can write one key, after a stall or because the edit replaces
  the rendition: `Disturbed` names these cases, and outside them the object stored is
  the one that was measured.
* `CutInv`: the master is the concatenation of what its segments keep, the timeline
  the recursion of their lengths (`Cursors`, `Concats`, by `FollowsExist` and
  `LeastIndex`: a recursion over numbers has a result, and what its steps preserve
  its result has).

### The pages (`Pages_proofs`)

`Spec => PagesTellTheTruth`, its invariants and its action property, from
`PageAssumption`, `BoardAssumption`, `FormAssumption` and `WebAssumption` (bounds are
naturals; there may be a row, a page holds one, and there is a token), for any number
of uploads, rows, pages, cards, edits, tabs and slips. The four pages share no state,
so the invariant has a part for each:

* `PageInv`, of a resident's page: a ticket under way holds one of the link's slots,
  counted by cardinality (`SlotsFit`); the form is busy with one upload at most, and
  one that was stopped goes no further (`RunsFit`); what an answer said of the link,
  and what the page made of it, is still so, because a link never recovers
  (`AnswersFit`).
* `BoardInv`, of the lists. A page is described by positions: `Ahead` counts the
  filter's rows down to a row, page `k` holds those from `(k - 1) * PageSize + 1` to
  `k * PageSize`, and a row that was there when a list was begun is on its pages or
  further on than they reach (`RowsReached`). A post only adds rows, so no row gets
  nearer; a row that leaves moves others up, which is what `left` marks. A list that
  shows what the reader knows to be decided owes a refetch, which is on its way or
  failed, or was passed over (`Owes`).
* `FormInv`: what was sent is accepted, and complaints are fresh only while nothing
  is sent.
* `WebInv`: tokens are numbered in the order they were issued and a family once closed
  has no live one, also when a refresh is between its read and its swap (`RowsFit`,
  `PostFits`). Outside `tangled` there is one request at most, with the browser's own
  cookies, and whoever is signed in has a live token in the cookie or on its way
  (`CalmFits`), from which the action property follows.

The attempt corrected a history flag of `Boards`. `late` used to be set at an
invalidation only if the fetch under way had already read a page. A fetch of the
*next* page that has read nothing yet keeps the older pages when it lands, and with
them a row that was decided meanwhile; with three requests of the reader TLC finds
that `DecidedLeavesTheList` then fails. The flag is now also set for such a fetch
(`Earlier`); the two requests of the run `clients` had not reached the case.

### What a visitor meets (`Pages_proofs`)

`Spec => VisitorsAreServed`, its invariants and its two action properties, from
`ProbeAssumption`, `LiveAssumption`, `VideoAssumption`, `AppAssumption` and
`ScheduleAssumption` (a URL goes stale no later than it expires, there is a build,
octets are octets, bounds are naturals), for any contents, addresses, broadcasts, joins,
tabs, builds, outages, time zones and visits. Again one part per component:

* `ProbeInv`: what the probe knows between two of its requests was so unless something
  moved beside it (`disturbed`); the comparison of octets is the code's (`PrivateIs`).
* `LiveInv` counts announcements. What is on its way to a page are the latest moves, in
  order and without a gap (`NoticesFit`); what a join has read was so at its move
  (`TasksFit`); and unless answers crossed, a page has missed nothing that is not on its
  way, from its room or from a join (`HeardFits`). So a page with nothing under way is at
  the last move. The url, which announcements do not carry, comes with the join that a
  start sends; `HeardFits` needs that the first move of a broadcast is not an
  interruption. `ScreenFits` ties the player to the url on the screen.
* `VideoInv`: an offer is remembered; a page that is not read again is younger than what
  is stale.
* `AppInv` ties what a tab has heard and asked for to the workers there are
  (`WindowFits`): a tab that runs cached assets finds them, and one that accepted waits
  for a takeover that is on its way, unless another tab's consent moved it.
* `ScheduleInv` are the claims themselves, but the week is built by a recursive function
  and the day found by another: `WeekIs` and `NextIs` say what they return, from the
  definition's own equation and the least day at which it would fail.

### What is only model-checked

Liveness (`UploadsEnd`, `StagesEnd`, `OutcomesArrive` and the like): liveness under
fairness and ENABLED are beyond the prover. So `ScreenCatchesUp` of
`ScreensAreUsable`, and `BroadcastIsFollowed`, `WeekIsReviewed`, `DeploymentIsTrue` and
`QueueFollowsDcp`, which join safety and liveness of their parts, are checked by TLC. Whatever is claimed after a crash of the api beyond the
theorems above that include crashes.

## 5. Abstractions

* Contents do not interact, so each module has one (`PublicReading` and `Boards`, where
  they do, have several). Titles, messages, sizes, scenes, wording and layout are
  left out unless a property is about them.
* A `focus` chooses the part of a composed run that moves; parts that start in one
  of several states start in one when they rest.
* In `Pipeline` a chain of `applySystemTransition` calls is one `HopStep`: each
  link is a no-op from the wrong status, and the next announcement finds the
  chain where it stands. Remove and add of one job are one step.
* In `Distribution` the row updates of one handler (`resolveResult` channel by
  channel, `requeueFailedForContent` row by row) are one step: each is a
  conditional update of one row and none reads another.
* Finished jobs never expire. The real queue keeps completed ones for an hour
  (`removeOnComplete`): an api that is down longer finds nothing to scan.
* The boot scan meets the jobs of one content in the order they finished,
  generation by generation, stage by stage.
* BullMQ and Redis, ffmpeg, the channels, the object store, the edge, the query
  library, the browser, DCP, GitHub's runners, `pg_dump` and `rsync` are external
  and modelled from how the code uses them.
* `Sessions` has one app and `Telemetry` one app session; `Deploy`'s workers are
  one service; `Stations` has one request per administrator at a time.

Some properties except cases in which the code, as it is, does not hold them.
Each exception is a history variable that no guard reads, set at the step
that opens the case, so that the property still covers everything else:

| variable | module | set when |
|---|---|---|
| `raced` | `Upload` | a request outlives a recovery and the next issue and changes an upload that is not its own |
| `raced` | `ResidentUpload` | two completions of one upload are received at a time |
| `unsent` | `Distribution`, `ResidentUpload` | the queue did not take a job after the commit |
| `outlived`, `lost` | `Recommendations` | a handler outlives the generation it read; a dispatch is lost |
| `overtaken`, `late`, `passed`, `crossed` | `LiveChat`, `Viewing` | a push, a hide or an announcement overtakes a join's answer; a join ends after its socket |
| `overtaken` | `LivePrompter` (`passed` in `MC_Services`) | a push comes between the reading of a join's list and the answer to `control.join` |
| `loaded` (of a request) | `ContentDrafts` | not a variable of its own: the scenes were written by another request after this one had loaded them |
| `overtaken` | `ContentScreens` | somebody else's command, or a lost answer, between the look and the decision |
| `acted` | `WeekScreens` | the same for a ranking |
| `trouble` | `PublicMedia` | a removal failed or was cut off, settings changed, a copy was still under way |
| `upset`, `tangled` | `Sessions`, `WebSession` | an answer is lost, or two tabs refresh or sign in at once |
| `switched` | `SubscriberApp` | another tab's consent moves a tab to a new worker |
| `disturbed` | `Probes` | something changed under the probe |
| `left`, `passed`, `late` (in the pages' records) | `Boards` | a row left between two pages; a scroll cancels a refetch; an invalidation met a fetch that leaves older pages in place |
| `had.thin` | `Backup` | the newest dump was of an empty database |
| `odd` | `RoleGate` | lines the script's regular expressions misread, counted and bounded |

## 6. Limits of the code that the models met

They are stated here because the properties step around them; the two that
contradict a comment most plainly are runs of their own.

* The boot scan replays jobs of earlier attempts and generations into the same
  status (`pipeline_stale_completion`); with a crash, `FailedMeansStopped` fails in
  both `Pipeline` and `Distribution` for the same reason and is checked without.
* A crash between a commit and its enqueue leaves a working stage without a job;
  `regenerating` then has no way out. `WorkIsBacked` and `StagesEnd` are checked
  without crashes. One before `resolveRevisionRequests` leaves a request open.
* A publication whose job Redis did not take stays queued, and no operation
  accepts it.
* A late request of a recovered upload completes or fails the next attempt (the
  columns do not tell them apart); the stale object of an earlier attempt
  satisfies a later HEAD; a cancelled upload whose PUT arrived is completed by the
  failure's own report.
* Two completions of one anonymous upload create two contents and put a decided
  upload back into review, two failures free its slot twice; slots of abandoned uploads are never freed; the reporter's
  screen does not offer to approve again after a lost enqueue, although the
  handler would repeat it.
* A handler of a finished generation of a recommendation may overwrite the next
  one: the update's condition is the status. `queue.remove` that fails quietly
  keeps the new job out.
* The first of two live operators' late `arm` leaves the timer of an ended session
  armed; a restart forgets which sessions are collected and a resume does not
  re-arm; a crash between push and mark repeats a comment; a late join leaks a
  presence; a rate limit's bucket goes with the first of a viewer's sockets.
* The prompter waits for `control.join` between the answer to `prompter.join` and showing
  it (`use-live-prompter.ts:48-54`): a push that arrives meanwhile is merged and then
  replaced by the older list, and stays missing until the next join. If `control.join` is
  refused the list is not shown at all, and the prompter says it is not connected.
* Two requests that write the scenes of one content may cross: the later one replaces the
  captions of the other, and the ids of the scenes it did not know.
* Public copies have no second attempt: what a failed removal leaves stays, and
  without a purge the edge keeps it for a year.
* A refresh in flight at an app's sign-out stores its tokens afterwards; a lost
  refresh answer closes the session at the next use; two tabs of the control
  center that refresh at once may sign each other out, and so does a server error.
* The monitor's rule on failed runs has no filter by commit and keeps alarming;
  runs slide out of its window. A rollback does not know the media probe's
  "unclassified" failures.
* The queue stays paused after a lost answer until DCP's next change, after a
  refresh in flight at the shutdown, or when the next deployment has no arbiter.
  The reporter's page stops polling for good once it read `enabled: false`.
* A retry of a playing video reuses the expired URL; the chat drops the video
  until a join is acknowledged; a browser without HLS has no fallback in a
  broadcast.
* The lists skip rows when one leaves between two pages, a 409 refreshes only the
  detail, and equal creation times have no order.
* A truncated dump on the NAS passes `--verify`; an `rsync` that reports vanished
  files ends the run; a retention of 0 days is accepted; failures outside `die` are
  silent.
* A job that stalls runs twice and the late upload wins; `probe()` and the S3
  transfers have no time limit; a plan's segments beyond the recording's end
  lengthen the timeline; one segment from 0 gives no warning.
* The role gate misreads `class X {}` on one line, a decorator and its member on
  one line, and heads over several lines; its allow list has no class names.
* The programme is drawn once per visit, and a static export carries the build's
  date; an ended broadcast stays on it.

## 7. Not modelled

* ai-worker's analyzers, ffmpeg's filters, channel adapters, comment sources:
  data or external services, a job succeeds or fails as a whole.
* Thumbnails, progress and duration sync of the pipeline: single-row writes that
  no other step reads. Issuing, listing and revoking resident links, users,
  channel accounts: single-row operations behind role guards.
* The telemetry summaries, the administrators' lists and search: SQL queries.
* `daejang-recheck`, `web-platform-test-gate`, `bundle-budget`,
  `check-destructive-migrations`, `dockerfile-workspace-deps`,
  `reporter-app-thinness-gate`, `asset-selector-uniqueness`,
  `master-scale-dual-axis-gate`: one pass over files, no state, and tests that list
  their inputs. `RoleGate`, whose scanner keeps a stack, is the one worth a model.
* `s3.service.ts`, `r2-cors.ts`, `prisma/seed.ts`, schemas and mappers, style
  sheets, layout and static pages.

## 8. Plan

Done: every component of section 1, with the fault models of section 3.

Proved: the safety properties of the workflow, the pipeline and the distribution,
both ways a file comes in and its parts, an app's session and its usage events, what
the public sees, what people write, the media-worker, the backups and the gate of the
controllers, the pages of residents, operators, reporters and visitors (section 4), and
that the workflow implements `ReleaseControl`.

To prove next: the safety parts of `WeekIsReviewed`, `DeploymentIsTrue` and
`QueueFollowsDcp` (`GateFollowsDcp`, `StopsRunning`).
