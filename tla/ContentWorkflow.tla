---------------------------- MODULE ContentWorkflow ----------------------------
(***************************************************************************)
(* ContentWorkflowService: the one gate every content status change goes   *)
(* through (services/api/src/contents/content-workflow.service.ts).        *)
(*                                                                         *)
(* A user operation runs in two steps.  It loads the content row outside   *)
(* any transaction and judges the operation against that snapshot; then    *)
(* one transaction applies the hop with a conditional UPDATE (WHERE status *)
(* = the loaded status) and writes the audit rows.  Between the two steps  *)
(* any other request, job event or reviewer may move the content, and the  *)
(* conditional UPDATE then touches no row (409 conflict).  Requests run    *)
(* concurrently; a crash of the api loses them all.                        *)
(*                                                                         *)
(* applySystemTransition and cancelBySystem also load first, but both a    *)
(* different status at the load and a lost UPDATE are a no-op for them, so *)
(* the pair is the single step "if the status is `from' then hop".         *)
(***************************************************************************)
EXTENDS Naturals, ContentStatus

CONSTANTS
  Request,               \* concurrent API requests on the content
  Origins,               \* the origins the content may have
  MaxGeneration          \* bound on the number of generations

ASSUME WorkflowAssumption ==
  /\ Origins \subseteq ContentOrigin
  /\ MaxGeneration \in Nat \ {0}

VARIABLES
  origin,                \* contents.origin, never changes
  reviewPolicy,          \* contents.review_policy, set at creation
  status,                \* contents.status
  generation,            \* contents.generation
  signed,                \* per side, the generation it last approved
                         \*   (approvedByUserId and the audit log)
  revised,               \* the generation the last revision_requests row is
                         \*   about (written in the transaction of its hop)
  review,                \* resident_uploads.status of the content's upload
  lastTx,                \* the audit rows the last transaction wrote
  request                \* the snapshot each running request works on

row == <<status, generation, signed, revised, lastTx>>
vars == <<origin, reviewPolicy, row, review, request>>

-------------------------------------------------------------------------------
(* Actors.  Only reporter_upload content has an owner (reporterId). *)

Side == {"owner", "center"}

Actor == IF origin = "reporter_upload" THEN {"owner", "reporter", "center"}
                                       ELSE {"reporter", "center"}

REPORTER_REVIEW_DECISIONS == {"reporter_approved", "revision_requested", "rejected"}

\* Faulty versions for the mutant checks, here and below: a definition whose
\* name ends in _<fault> stands for its namesake with that fault.
PolicyGuard_AnyReviewer(from, to, actor) ==
  /\ from = "preview_generating" /\ to = "awaiting_reporter_review"
       => origin = "reporter_upload"
  /\ from = "preview_generating" /\ to = "awaiting_center_review"
       => origin \in {"live_vod", "resident_link"}

PolicyGuard_AnyOrigin(from, to, actor) ==
  from = "awaiting_reporter_review" /\ to \in REPORTER_REVIEW_DECISIONS
    => actor \in {"owner", "system"}

PolicyGuard(from, to, actor) ==
  /\ from = "preview_generating" /\ to = "awaiting_reporter_review"
       => origin = "reporter_upload"
  /\ from = "preview_generating" /\ to = "awaiting_center_review"
       => origin \in {"live_vod", "resident_link"}
  /\ from = "awaiting_reporter_review" /\ to \in REPORTER_REVIEW_DECISIONS
       => actor \in {"owner", "system"}

OwnerOrCenter(actor) == actor \in Side

CenterAtCenterReview(from, actor) ==
  from = "awaiting_center_review" => actor = "center"

-------------------------------------------------------------------------------
(* The user operations: what each demands of the loaded status and of the  *)
(* user, and the status it aims at.                                        *)

Approve(actor, from, to) ==
  /\ to = IF from = "awaiting_center_review" THEN "center_approved"
                                             ELSE "reporter_approved"
  /\ CenterAtCenterReview(from, actor)
  /\ PolicyGuard(from, to, actor)

RequestRevision(actor, from, to) ==
  /\ to = "revision_requested"
  /\ CenterAtCenterReview(from, actor)
  /\ PolicyGuard(from, to, actor)

RejectContent(actor, from, to) ==
  /\ to = "rejected"
  /\ CenterAtCenterReview(from, actor)
  /\ PolicyGuard(from, to, actor)

Cancel(actor, from, to) == to = "canceled" /\ OwnerOrCenter(actor)

Regenerate(actor, from, to) == to = "regenerating" /\ PolicyGuard(from, to, actor)

Retry(actor, from, to) ==
  /\ from \in FailureStatus
  /\ to = CONTENT_RETRY_TARGET[from]
  /\ actor = "center" \/ (actor = "owner" /\ from = "upload_failed")

Transition_AnyTarget(actor, from, to) ==
  actor = "center" /\ PolicyGuard(from, to, actor)

\* The generic transition of operators; a revision needs its own endpoint.
Transition(actor, from, to) ==
  /\ actor = "center"
  /\ to # "revision_requested"
  /\ PolicyGuard(from, to, actor)

\* beginUpload, completeUpload and failUpload are one hop for the owner.
Upload(actor, from, to) ==
  /\ to \in {"uploading", "uploaded", "upload_failed"}
  /\ OwnerOrCenter(actor)

Distribute(actor, from, to) ==
  from = "center_approved" /\ to = "publishing" /\ actor = "center"

ResumePublishing(actor, from, to) ==
  from = "publish_failed" /\ to = "publishing" /\ actor = "center"

Allowed(op, actor, from, to) ==
  \/ op = "approve" /\ Approve(actor, from, to)
  \/ op = "requestRevision" /\ RequestRevision(actor, from, to)
  \/ op = "reject" /\ RejectContent(actor, from, to)
  \/ op = "cancel" /\ Cancel(actor, from, to)
  \/ op = "regenerate" /\ Regenerate(actor, from, to)
  \/ op = "retry" /\ Retry(actor, from, to)
  \/ op = "transition" /\ Transition(actor, from, to)
  \/ op = "upload" /\ Upload(actor, from, to)
  \/ op = "distribute" /\ Distribute(actor, from, to)
  \/ op = "resumePublishing" /\ ResumePublishing(actor, from, to)

Operation == {"approve", "requestRevision", "reject", "cancel", "regenerate", "retry",
              "transition", "upload", "distribute", "resumePublishing"}

Loaded == [op : Operation, actor : {"owner", "reporter", "center"},
           from : Status, to : Status]

Idle == [op |-> "none"]

-------------------------------------------------------------------------------
(* applyHop *)

StatusUnmoved_Unchecked(from) == TRUE

\* The conditional UPDATE hits the row: its status is still the loaded one.
StatusUnmoved(from) == status = from

EntryAllowed_NoReview(from, to) == TRUE

\* assertResidentReviewApproved on the edge into the pipeline.
EntryAllowed(from, to) ==
  (from = "uploaded" /\ to = "processing" /\ origin = "resident_link")
    => review = "approved"

NextGeneration_Same(to) == generation

NextGeneration_CountsDown(to) == IF to = "regenerating" THEN generation - 1 ELSE generation

NextGeneration(to) == IF to = "regenerating" THEN generation + 1 ELSE generation

WithinBound(to) == to = "regenerating" => generation < MaxGeneration

HopApplies(from, to) ==
  StatusUnmoved(from) /\ EntryAllowed(from, to) /\ WithinBound(to)

ApplyHop(from, to) ==
  /\ HopApplies(from, to)
  /\ status' = to
  /\ generation' = NextGeneration(to)
  /\ lastTx' = {<<from, to>>}

-------------------------------------------------------------------------------
Init ==
  /\ origin \in Origins
  /\ reviewPolicy \in ReviewPolicies
  /\ status = IF origin = "reporter_upload" THEN "draft" ELSE "uploaded"
  /\ generation = 1
  /\ signed = [s \in Side |-> 0]
  /\ revised = 0
  /\ review = IF origin = "resident_link" THEN "awaiting_branch_review" ELSE "none"
  /\ lastTx = {}
  /\ request = [r \in Request |-> Idle]

\* load(), assertAllowed and every guard; a refused operation ends unseen.
Load(r) ==
  /\ request[r] = Idle
  /\ \E op \in Operation, actor \in Actor, to \in CONTENT_STATUS_TRANSITIONS[status] :
       /\ Allowed(op, actor, status, to)
       /\ WithinBound(to)
       /\ request' = [request EXCEPT
                        ![r] = [op |-> op, actor |-> actor, from |-> status, to |-> to]]
  /\ UNCHANGED <<origin, reviewPolicy, row, review>>

\* The transaction of a reporter's approval: two hops, two audit rows, and
\* reporter_approved is never the status anyone else can read.
CommitReporterApproval(r) ==
  LET q == request[r]
      chained == AfterReporterApproval(reviewPolicy)
  IN  /\ q # Idle
      /\ q.op = "approve" /\ q.to = "reporter_approved"
      /\ HopApplies(q.from, q.to)
      /\ status' = chained
      /\ lastTx' = {<<q.from, q.to>>, <<q.to, chained>>}
      /\ signed' = [signed EXCEPT !["owner"] = generation]
      /\ request' = [request EXCEPT ![r] = Idle]
      /\ UNCHANGED <<origin, reviewPolicy, generation, revised, review>>

\* The transaction of every other operation: one hop and its effects.
CommitHop(r) ==
  LET q == request[r]
  IN  /\ q # Idle
      /\ ~ (q.op = "approve" /\ q.to = "reporter_approved")
      /\ ApplyHop(q.from, q.to)
      /\ signed' = IF q.to = "center_approved"
                     THEN [signed EXCEPT !["center"] = generation] ELSE signed
      /\ revised' = IF q.op = "requestRevision" THEN generation ELSE revised
      /\ request' = [request EXCEPT ![r] = Idle]
      /\ UNCHANGED <<origin, reviewPolicy, review>>

\* 409: the UPDATE touched no row or the resident gate threw; rolled back.
Conflict(r) ==
  /\ request[r] # Idle
  /\ ~ HopApplies(request[r].from, request[r].to)
  /\ request' = [request EXCEPT ![r] = Idle]
  /\ UNCHANGED <<origin, reviewPolicy, row, review>>

\* The hops PipelineService asks for when job events arrive.
SystemEdge ==
  {<<"uploaded", "processing">>, <<"processing", "analyzing">>,
   <<"processing", "preview_generating">>, <<"processing", "processing_failed">>,
   <<"analyzing", "preview_generating">>, <<"analyzing", "analysis_failed">>,
   <<"preview_generating", PreviewReviewTarget(origin)>>,
   <<"preview_generating", "preview_failed">>,
   <<"regenerating", "analyzing">>, <<"regenerating", "preview_generating">>,
   <<"regenerating", "regeneration_failed">>,
   <<"publishing", "published">>, <<"publishing", "publish_failed">>}

\* applySystemTransition.
SystemTransition(from, to) ==
  /\ PolicyGuard(from, to, "system")
  /\ CanTransitionContent(from, to)
  /\ ApplyHop(from, to)
  /\ UNCHANGED <<origin, reviewPolicy, signed, revised, review, request>>

\* ResidentReviewsService.approve, up to the decision it records.
ReviewApprove ==
  /\ review = "awaiting_branch_review"
  /\ review' = "approved"
  /\ UNCHANGED <<origin, reviewPolicy, row, request>>

ReviewReject_DecisionOnly ==
  /\ review = "awaiting_branch_review"
  /\ review' = "rejected"
  /\ UNCHANGED <<origin, reviewPolicy, row, request>>

\* ResidentReviewsService.reject: the decision and cancelBySystem, one transaction.
ReviewReject ==
  /\ review = "awaiting_branch_review"
  /\ review' = "rejected"
  /\ \/ /\ ApplyHop("uploaded", "canceled")
        /\ UNCHANGED <<signed, revised>>
     \/ /\ status # "uploaded"
        /\ UNCHANGED row
  /\ UNCHANGED <<origin, reviewPolicy, request>>

\* The api process dies: every running request is gone, the rows are not.
Crash ==
  /\ \E r \in Request : request[r] # Idle
  /\ request' = [r \in Request |-> Idle]
  /\ UNCHANGED <<origin, reviewPolicy, row, review>>

Next ==
  \/ \E r \in Request :
       \/ Load(r)
       \/ CommitReporterApproval(r)
       \/ CommitHop(r)
       \/ Conflict(r)
  \/ \E edge \in SystemEdge : SystemTransition(edge[1], edge[2])
  \/ ReviewApprove
  \/ ReviewReject
  \/ Crash

Spec == Init /\ [][Next]_vars

-------------------------------------------------------------------------------
(* Properties *)

ReviewStatus == {"none", "awaiting_branch_review", "approved", "rejected"}

\* Every row holds values of its columns and every running request the
\* snapshot of one load (the schema behind content-workflow.service.ts).
TypeOK ==
  /\ origin \in ContentOrigin
  /\ reviewPolicy \in ReviewPolicies
  /\ status \in Status
  /\ generation \in Nat \ {0}
  /\ signed \in [Side -> Nat]
  /\ revised \in Nat
  /\ review \in ReviewStatus
  /\ lastTx \subseteq Status \X Status
  /\ request \in [Request -> Loaded \union {Idle}]

\* A reporter's approval and the hop it chains are one transaction: nobody
\* ever reads reporter_approved, whatever requests and operators do.
ApprovalIsNeverHalfDone == status # "reporter_approved"

RequiredSignoffs ==
  IF origin # "reporter_upload" THEN {"center"}
  ELSE IF reviewPolicy = "reporter_then_center" THEN Side ELSE {"owner"}

ReleasedStatus == {"publishing", "publish_failed", "published", "archived"}

\* Whatever goes out was approved by everybody its origin and review policy
\* call for, and approved in the generation that goes out: an approval of an
\* earlier generation never carries over a regeneration.
ReleasedIsSignedOff ==
  status \in ReleasedStatus => \A s \in RequiredSignoffs : signed[s] = generation

\* The center never reviews a reporter's content that its reporter has not
\* approved in this generation (no path around the reporter's review).
CenterReviewsApprovedWork ==
  status \in {"awaiting_center_review", "center_approved"} /\ origin = "reporter_upload"
    => signed["owner"] = generation

\* Content from a resident link is past `uploaded' only after the branch
\* approved it, by whatever path it tried to get there.
ResidentGate ==
  origin = "resident_link" /\ status \notin {"uploaded", "canceled"}
    => review = "approved"

\* A branch's rejection closes the content in the same transaction: nothing
\* stays behind in `uploaded', also when users act on it at the same time.
RejectedUploadIsClosed == review = "rejected" => status = "canceled"

\* Nothing is reworked without somebody having said what to change: a content
\* waiting for its regeneration has a revision request about the generation
\* it rejects, and every generation after the first goes back to a request
\* about an earlier one, also when a regeneration fails and is retried.
RevisionIsOnRecord ==
  /\ status = "revision_requested" => revised = generation
  /\ status \in {"regenerating", "regeneration_failed"} => revised \in 1 .. generation - 1
  /\ generation > 1 => revised \in 1 .. generation

\* The audit rows of a transaction lead from the status before it to the
\* status after it along the map, one row per hop: concurrent requests never
\* leave a trail that does not join up.
AuditTrailJoinsUp ==
  [][status' # status =>
       /\ \A t \in lastTx' : CanTransitionContent(t[1], t[2])
       /\ \/ lastTx' = {<<status, status'>>}
          \/ \E via \in Status : lastTx' = {<<status, via>>, <<via, status'>>}]_vars

-------------------------------------------------------------------------------
(* The inductive invariant of the proofs.  A request between its load and  *)
(* its transaction still satisfies, for the status it loaded, the guards   *)
(* it passed: they depend on columns that never change.                    *)

RequestsStandPermitted ==
  \A r \in Request : request[r] # Idle =>
    LET q == request[r]
    IN  /\ q.actor \in Actor
        /\ q.to \in CONTENT_STATUS_TRANSITIONS[q.from]
        /\ Allowed(q.op, q.actor, q.from, q.to)

SignoffsAreDated ==
  /\ \A s \in Side : signed[s] <= generation
  /\ status = "center_approved" => signed["center"] = generation

OnlyResidentsAreReviewed == review # "none" => origin = "resident_link"

WorkflowSafety ==
  /\ ApprovalIsNeverHalfDone
  /\ ReleasedIsSignedOff
  /\ CenterReviewsApprovedWork
  /\ SignoffsAreDated
  /\ ResidentGate
  /\ RejectedUploadIsClosed
  /\ RevisionIsOnRecord

WorkflowInv ==
  TypeOK /\ RequestsStandPermitted /\ OnlyResidentsAreReviewed /\ WorkflowSafety

-------------------------------------------------------------------------------
(* The workflow implements ReleaseControl. *)

StageOf(s) ==
  CASE s \in {"awaiting_reporter_review", "reporter_approved",
              "awaiting_center_review", "center_approved"} -> "review"
    [] s = "revision_requested"                            -> "rework"
    [] s \in {"publishing", "publish_failed"}              -> "release"
    [] s = "published"                                     -> "aired"
    [] s \in TerminalStatus                                -> "closed"
    [] OTHER                                               -> "work"

SignoffsOfGeneration == {s \in Side : signed[s] = generation}

Control == INSTANCE ReleaseControl
             WITH Role <- Side, stage <- StageOf(status), version <- generation,
                  signoffs <- SignoffsOfGeneration, required <- RequiredSignoffs

\* The concurrent, 23-status workflow is a release control: sign-offs are
\* per version and complete before a release.
ImplementsReleaseControl == Control!Spec
===============================================================================
