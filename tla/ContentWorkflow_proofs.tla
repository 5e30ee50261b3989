------------------------ MODULE ContentWorkflow_proofs ------------------------
(***************************************************************************)
(* For any number of concurrent requests, any set of origins and any       *)
(* number of generations: the type invariant, the safety properties of the *)
(* content workflow, and that it implements ReleaseControl.                *)
(*                                                                         *)
(* A hop is safe because of the guards its request passed at the load      *)
(* (RequestsStandPermitted) and of the conditional UPDATE (StatusUnmoved): *)
(* HopIsSafe says so once, and the user operations, the system transitions *)
(* and the resident review are instances of it.                            *)
(***************************************************************************)
EXTENDS ContentWorkflow, TLAPS

-------------------------------------------------------------------------------
(* Facts about the transition map *)

\* The statuses, one by one (workflow.ts lists 23).
LEMMA StatusesAreListed ==
  Status = {"draft", "uploading", "upload_failed", "uploaded", "processing",
            "processing_failed", "analyzing", "analysis_failed", "preview_generating",
            "preview_failed", "awaiting_reporter_review", "revision_requested",
            "regenerating", "regeneration_failed", "reporter_approved",
            "awaiting_center_review", "center_approved", "publishing",
            "publish_failed", "published", "rejected", "canceled", "archived"}
BY DEF Status, CONTENT_STATUS_TRANSITIONS

\* The map, read one status at a time (CONTENT_STATUS_TRANSITIONS).
LEMMA TransitionsOfEach ==
  /\ CONTENT_STATUS_TRANSITIONS["draft"] = {"uploading", "canceled"}
  /\ CONTENT_STATUS_TRANSITIONS["uploading"] = {"uploaded", "upload_failed"}
  /\ CONTENT_STATUS_TRANSITIONS["upload_failed"] = {"uploading", "canceled"}
  /\ CONTENT_STATUS_TRANSITIONS["uploaded"] = {"processing", "canceled"}
  /\ CONTENT_STATUS_TRANSITIONS["processing"] = {"analyzing", "preview_generating", "processing_failed", "canceled"}
  /\ CONTENT_STATUS_TRANSITIONS["processing_failed"] = {"processing", "canceled"}
  /\ CONTENT_STATUS_TRANSITIONS["analyzing"] = {"preview_generating", "analysis_failed", "canceled"}
  /\ CONTENT_STATUS_TRANSITIONS["analysis_failed"] = {"analyzing", "preview_generating", "canceled"}
  /\ CONTENT_STATUS_TRANSITIONS["preview_generating"] = {"awaiting_reporter_review", "awaiting_center_review", "preview_failed"}
  /\ CONTENT_STATUS_TRANSITIONS["preview_failed"] = {"preview_generating", "canceled"}
  /\ CONTENT_STATUS_TRANSITIONS["awaiting_reporter_review"] = {"reporter_approved", "revision_requested", "rejected", "canceled"}
  /\ CONTENT_STATUS_TRANSITIONS["revision_requested"] = {"regenerating", "canceled"}
  /\ CONTENT_STATUS_TRANSITIONS["regenerating"] = {"analyzing", "preview_generating", "regeneration_failed"}
  /\ CONTENT_STATUS_TRANSITIONS["regeneration_failed"] = {"regenerating", "canceled"}
  /\ CONTENT_STATUS_TRANSITIONS["reporter_approved"] = {"awaiting_center_review", "publishing"}
  /\ CONTENT_STATUS_TRANSITIONS["awaiting_center_review"] = {"center_approved", "revision_requested", "rejected"}
  /\ CONTENT_STATUS_TRANSITIONS["center_approved"] = {"publishing"}
  /\ CONTENT_STATUS_TRANSITIONS["publishing"] = {"published", "publish_failed"}
  /\ CONTENT_STATUS_TRANSITIONS["publish_failed"] = {"publishing", "canceled"}
  /\ CONTENT_STATUS_TRANSITIONS["published"] = {"archived"}
  /\ CONTENT_STATUS_TRANSITIONS["rejected"] = {}
  /\ CONTENT_STATUS_TRANSITIONS["canceled"] = {}
  /\ CONTENT_STATUS_TRANSITIONS["archived"] = {}
BY DEF CONTENT_STATUS_TRANSITIONS

\* The map read backwards: which statuses lead to the ones that matter for
\* sign-off, release and rework (CONTENT_STATUS_TRANSITIONS).
LEMMA TransitionFacts ==
  ASSUME NEW from \in Status, NEW to \in CONTENT_STATUS_TRANSITIONS[from]
  PROVE  /\ to \in Status
         /\ to # from
         /\ to = "center_approved" => from = "awaiting_center_review"
         /\ to = "reporter_approved" => from = "awaiting_reporter_review"
         /\ to = "publishing" => from \in {"reporter_approved", "center_approved", "publish_failed"}
         /\ to \in {"published", "publish_failed"} => from = "publishing"
         /\ to = "archived" => from = "published"
         /\ to = "awaiting_center_review" => from \in {"preview_generating", "reporter_approved"}
         /\ to = "regenerating" => from \in {"revision_requested", "regeneration_failed"}
         /\ to = "regeneration_failed" => from = "regenerating"
         /\ from = "uploaded" => to \in {"processing", "canceled"}
         /\ to = "uploaded" => from = "uploading"
         /\ to # "draft"
         /\ from \notin {"rejected", "canceled", "archived"}
BY StatusesAreListed, TransitionsOfEach

-------------------------------------------------------------------------------
(* Types *)

\* A running request holds a snapshot (Load is the only way in).
LEMMA RunningIsLoaded ==
  ASSUME TypeOK, NEW r \in Request, request[r] # Idle
  PROVE  request[r] \in Loaded
BY DEF TypeOK

\* The statuses that definitions name are statuses of the map.
LEMMA NamedStatuses ==
  /\ AfterReporterApproval(reviewPolicy) \in {"awaiting_center_review", "publishing"}
  /\ {"awaiting_center_review", "publishing", "reporter_approved", "uploaded",
      "canceled", "draft", "processing", "revision_requested"} \subseteq Status
BY StatusesAreListed DEF AfterReporterApproval

\* The first state has every row and request of its type (Init).
LEMMA InitTypeOK == Init => TypeOK
<1> SUFFICES ASSUME Init PROVE TypeOK
  OBVIOUS
<1>1. /\ origin \in ContentOrigin
      /\ status \in Status
  BY WorkflowAssumption, NamedStatuses DEF Init
<1>2. /\ signed \in [Side -> Nat]
      /\ review \in ReviewStatus
      /\ request \in [Request -> Loaded \union {Idle}]
  BY DEF Init, ReviewStatus
<1>3. generation \in Nat \ {0} /\ lastTx \subseteq Status \X Status
  BY DEF Init
<1>4. QED
  BY <1>1, <1>2, <1>3 DEF Init, TypeOK

\* No step of any operation leaves the types (every handler of the service).
LEMMA NextTypeOK == TypeOK /\ [Next]_vars => TypeOK'
<1> SUFFICES ASSUME TypeOK, [Next]_vars PROVE TypeOK'
  OBVIOUS
<1>1. ASSUME NEW from \in Status, NEW to \in Status, ApplyHop(from, to)
      PROVE  /\ status' \in Status
             /\ generation' \in Nat \ {0}
             /\ lastTx' \subseteq Status \X Status
  BY <1>1 DEF TypeOK, ApplyHop, NextGeneration
<1>2. ASSUME NEW r \in Request, Load(r) PROVE TypeOK'
  <2>1. PICK op \in Operation, actor \in Actor, to \in CONTENT_STATUS_TRANSITIONS[status] :
          request' = [request EXCEPT
                        ![r] = [op |-> op, actor |-> actor, from |-> status, to |-> to]]
    BY <1>2 DEF Load
  <2>2. to \in Status
    BY TransitionFacts DEF TypeOK
  <2>3. [op |-> op, actor |-> actor, from |-> status, to |-> to] \in Loaded
    BY <2>2 DEF Loaded, Actor, TypeOK
  <2>4. request' \in [Request -> Loaded \union {Idle}]
    BY <2>1, <2>3 DEF TypeOK
  <2>5. QED
    BY <1>2, <2>4 DEF Load, row, TypeOK
<1>3. ASSUME NEW r \in Request, CommitReporterApproval(r) PROVE TypeOK'
  <2>1. request[r] \in Loaded
    BY <1>3, RunningIsLoaded DEF CommitReporterApproval
  <2>2. /\ status' \in Status
        /\ lastTx' \subseteq Status \X Status
    BY <1>3, <2>1, NamedStatuses DEF CommitReporterApproval, Loaded
  <2>3. signed' \in [Side -> Nat]
    BY <1>3 DEF CommitReporterApproval, TypeOK, Side
  <2>4. QED
    BY <1>3, <2>2, <2>3 DEF CommitReporterApproval, TypeOK
<1>4. ASSUME NEW r \in Request, CommitHop(r) PROVE TypeOK'
  <2>1. request[r] \in Loaded
    BY <1>4, RunningIsLoaded DEF CommitHop
  <2>2. /\ status' \in Status
        /\ generation' \in Nat \ {0}
        /\ lastTx' \subseteq Status \X Status
    BY <1>4, <2>1, <1>1 DEF CommitHop, Loaded
  <2>3. signed' \in [Side -> Nat]
    BY <1>4 DEF CommitHop, TypeOK, Side
  <2>4. revised' \in Nat
    BY <1>4 DEF CommitHop, TypeOK
  <2>5. QED
    BY <1>4, <2>2, <2>3, <2>4 DEF CommitHop, TypeOK
<1>5. ASSUME NEW r \in Request, Conflict(r) PROVE TypeOK'
  BY <1>5 DEF Conflict, row, TypeOK
<1>6. ASSUME NEW edge \in SystemEdge, SystemTransition(edge[1], edge[2]) PROVE TypeOK'
  <2>1. edge[1] \in Status /\ edge[2] \in Status
    BY StatusesAreListed DEF SystemEdge, PreviewReviewTarget
  <2>2. revised' \in Nat
    BY <1>6 DEF SystemTransition, TypeOK
  <2>3. QED
    BY <1>6, <2>1, <2>2, <1>1 DEF SystemTransition, TypeOK
<1>7. CASE ReviewApprove
  BY <1>7 DEF ReviewApprove, row, TypeOK, ReviewStatus
<1>8. CASE ReviewReject
  <2>1. CASE ApplyHop("uploaded", "canceled") /\ UNCHANGED <<signed, revised>>
    BY <1>8, <2>1, <1>1, NamedStatuses DEF ReviewReject, TypeOK, ReviewStatus
  <2>2. CASE UNCHANGED row
    BY <1>8, <2>2 DEF ReviewReject, row, TypeOK, ReviewStatus
  <2>3. QED
    BY <1>8, <2>1, <2>2 DEF ReviewReject
<1>9. CASE Crash
  BY <1>9 DEF Crash, row, TypeOK
<1>10. CASE UNCHANGED vars
  BY <1>10 DEF vars, row, TypeOK
<1>11. QED
  BY <1>2, <1>3, <1>4, <1>5, <1>6, <1>7, <1>8, <1>9, <1>10 DEF Next

\* Every row and every running request keeps its type, for any number of
\* requests (content-workflow.service.ts).
THEOREM TypeCorrect == Spec => []TypeOK
<1>1. QED
  BY InitTypeOK, NextTypeOK, PTL DEF Spec

-------------------------------------------------------------------------------
(* Requests *)

\* The guards a request passed at its load hold until its transaction: they
\* depend on the snapshot and on columns that never change (the load and the
\* guards before every $transaction of the service).
LEMMA RequestsStayPermitted ==
  TypeOK /\ RequestsStandPermitted /\ [Next]_vars => RequestsStandPermitted'
<1> SUFFICES ASSUME TypeOK, RequestsStandPermitted, [Next]_vars
             PROVE  RequestsStandPermitted'
  OBVIOUS
<1>1. origin' = origin
  BY DEF Next, vars, Load, CommitReporterApproval, CommitHop, Conflict, SystemTransition,
         ReviewApprove, ReviewReject, Crash
<1>2. ASSUME NEW s \in Request, request'[s] # Idle
      PROVE  /\ request'[s].actor \in Actor
             /\ request'[s].to \in CONTENT_STATUS_TRANSITIONS[request'[s].from]
             /\ Allowed(request'[s].op, request'[s].actor, request'[s].from, request'[s].to)
  <2>1. CASE request'[s] = request[s]
    BY <1>2, <2>1 DEF RequestsStandPermitted
  <2>2. CASE request'[s] # request[s]
    <3>1. Load(s)
      BY <1>2, <2>2 DEF Next, vars, TypeOK, Load, CommitReporterApproval, CommitHop, Conflict,
                        SystemTransition, ReviewApprove, ReviewReject, Crash
    <3>2. PICK op \in Operation, actor \in Actor, to \in CONTENT_STATUS_TRANSITIONS[status] :
            /\ Allowed(op, actor, status, to)
            /\ request' = [request EXCEPT
                             ![s] = [op |-> op, actor |-> actor, from |-> status, to |-> to]]
      BY <3>1 DEF Load
    <3>3. request'[s] = [op |-> op, actor |-> actor, from |-> status, to |-> to]
      BY <3>2 DEF TypeOK
    <3>4. QED
      BY <3>2, <3>3
  <2>3. QED
    BY <2>1, <2>2
<1>3. QED
  BY <1>1, <1>2
     DEF RequestsStandPermitted, Actor, Allowed, Approve, RequestRevision, RejectContent,
         Cancel, Regenerate, Retry, Transition, Upload, Distribute, ResumePublishing,
         PolicyGuard

\* What the guards of a running request leave open, whatever its operation:
\* no request but an approval reaches reporter_approved, the center's review
\* is reached only with no reporter, a revision only by its own endpoint.
LEMMA PermittedHops ==
  ASSUME WorkflowInv, NEW r \in Request, request[r] # Idle
  PROVE  /\ request[r] \in Loaded
         /\ request[r].to \in CONTENT_STATUS_TRANSITIONS[request[r].from]
         /\ request[r].to = "reporter_approved" =>
              request[r].op = "approve" /\ origin = "reporter_upload"
         /\ request[r].to = "awaiting_center_review" /\ request[r].from # "reporter_approved" =>
              origin # "reporter_upload"
         /\ request[r].to = "revision_requested" <=> request[r].op = "requestRevision"
<1> DEFINE q == request[r]
<1>1. /\ q \in Loaded
      /\ q.actor \in Actor
      /\ q.to \in CONTENT_STATUS_TRANSITIONS[q.from]
      /\ Allowed(q.op, q.actor, q.from, q.to)
  BY RunningIsLoaded DEF WorkflowInv, RequestsStandPermitted
<1>2. q.from \in Status /\ q.to \in Status
  BY <1>1 DEF Loaded
<1>3. q.from \in FailureStatus =>
        CONTENT_RETRY_TARGET[q.from] \notin
          {"reporter_approved", "awaiting_center_review", "revision_requested"}
  BY DEF FailureStatus, CONTENT_RETRY_TARGET
<1>4. ASSUME q.to = "reporter_approved"
      PROVE  q.op = "approve" /\ origin = "reporter_upload"
  <2>1. q.from = "awaiting_reporter_review"
    BY <1>1, <1>2, <1>4, TransitionFacts
  <2>2. q.op = "approve" /\ q.actor = "owner"
    BY <1>1, <1>3, <1>4, <2>1
       DEF Allowed, Approve, RequestRevision, RejectContent, Cancel, Regenerate, Retry,
           Transition, Upload, Distribute, ResumePublishing, PolicyGuard,
           REPORTER_REVIEW_DECISIONS, Actor
  <2>3. QED
    BY <1>1, <2>2 DEF Actor
<1>5. ASSUME q.to = "awaiting_center_review", q.from # "reporter_approved"
      PROVE  origin # "reporter_upload"
  <2>1. q.from = "preview_generating"
    BY <1>1, <1>2, <1>5, TransitionFacts
  <2>2. PolicyGuard(q.from, q.to, q.actor)
    BY <1>1, <1>3, <1>5
       DEF Allowed, Approve, RequestRevision, RejectContent, Cancel, Regenerate, Retry,
           Transition, Upload, Distribute, ResumePublishing
  <2>3. QED
    BY <1>5, <2>1, <2>2 DEF PolicyGuard
<1>6. q.to = "revision_requested" <=> q.op = "requestRevision"
  BY <1>1, <1>3
     DEF Allowed, Approve, RequestRevision, RejectContent, Cancel, Regenerate, Retry, Transition, Upload,
         Distribute, ResumePublishing
<1>7. QED
  BY <1>1, <1>4, <1>5, <1>6

-------------------------------------------------------------------------------
(* Safety *)

\* A hop of applyHop keeps the content safe if it is not a reporter's
\* approval, if the center's review is entered only where there is no
\* reporter, if it dates the center's approval, and if a revision that is
\* asked for is recorded.
LEMMA HopIsSafe ==
  ASSUME WorkflowInv,
         NEW from \in Status, NEW to \in CONTENT_STATUS_TRANSITIONS[from],
         ApplyHop(from, to),
         UNCHANGED <<origin, reviewPolicy>>,
         to # "reporter_approved",
         to = "awaiting_center_review" => origin # "reporter_upload",
         signed' = IF to = "center_approved"
                     THEN [signed EXCEPT !["center"] = generation] ELSE signed,
         review' = review \/ (review' = "rejected" /\ to = "canceled"),
         revised' = IF to = "revision_requested" THEN generation ELSE revised
  PROVE  WorkflowSafety'
<1>1. /\ status = from
      /\ status' = to
      /\ generation' = NextGeneration(to)
      /\ EntryAllowed(from, to)
  BY DEF ApplyHop, HopApplies, StatusUnmoved
<1>2. /\ generation \in Nat \ {0}
      /\ signed \in [Side -> Nat]
      /\ from # "reporter_approved"
  BY <1>1 DEF WorkflowInv, TypeOK, WorkflowSafety, ApprovalIsNeverHalfDone
<1>3. ApprovalIsNeverHalfDone'
  BY <1>1 DEF ApprovalIsNeverHalfDone
<1>4. SignoffsAreDated'
  <2>1. generation' \in Nat /\ generation' >= generation
    BY <1>1, <1>2 DEF NextGeneration
  <2>2. \A s \in Side : signed'[s] <= generation'
    <3>1. \A s \in Side : signed[s] \in Nat /\ signed[s] <= generation
      BY <1>2 DEF WorkflowInv, WorkflowSafety, SignoffsAreDated
    <3>2. \A s \in Side : signed'[s] \in {signed[s], generation}
      BY <1>2 DEF Side
    <3>3. QED
      BY <1>2, <2>1, <3>1, <3>2
  <2>3. to = "center_approved" => signed'["center"] = generation'
    BY <1>1, <1>2 DEF NextGeneration, Side
  <2>4. QED
    BY <1>1, <2>2, <2>3 DEF SignoffsAreDated
<1>5. CenterReviewsApprovedWork'
  <2>1. CASE to = "center_approved"
    <3>1. from = "awaiting_center_review"
      BY <2>1, TransitionFacts
    <3>2. signed'["owner"] = signed["owner"] /\ generation' = generation
      BY <1>1, <1>2, <2>1 DEF NextGeneration, Side
    <3>3. QED
      BY <1>1, <3>1, <3>2 DEF WorkflowInv, WorkflowSafety, CenterReviewsApprovedWork
  <2>2. CASE to # "center_approved"
    BY <1>1, <2>2 DEF CenterReviewsApprovedWork
  <2>3. QED
    BY <2>1, <2>2
<1>6. ReleasedIsSignedOff'
  <2> SUFFICES ASSUME to \in ReleasedStatus
               PROVE  \A s \in RequiredSignoffs : signed[s] = generation
    BY <1>1 DEF ReleasedIsSignedOff, ReleasedStatus, RequiredSignoffs, NextGeneration
  <2>1. from \in ReleasedStatus \union {"center_approved"}
    BY <1>2, TransitionFacts DEF ReleasedStatus
  <2>2. CASE from \in ReleasedStatus
    BY <1>1, <2>2 DEF WorkflowInv, WorkflowSafety, ReleasedIsSignedOff
  <2>3. CASE from = "center_approved"
    BY <1>1, <2>3 DEF WorkflowInv, WorkflowSafety, SignoffsAreDated,
                      CenterReviewsApprovedWork, RequiredSignoffs, Side
  <2>4. QED
    BY <2>1, <2>2, <2>3
<1>7. ResidentGate'
  <2> SUFFICES ASSUME origin = "resident_link", to \notin {"uploaded", "canceled"}
               PROVE  review = "approved"
    BY <1>1 DEF ResidentGate
  <2>1. from # "canceled"
    BY TransitionFacts
  <2>2. CASE from = "uploaded"
    BY <1>1, <2>2, TransitionFacts DEF EntryAllowed
  <2>3. CASE from # "uploaded"
    BY <1>1, <2>1, <2>3 DEF WorkflowInv, WorkflowSafety, ResidentGate
  <2>4. QED
    BY <2>2, <2>3
<1>8. RejectedUploadIsClosed'
  BY <1>1, TransitionFacts DEF WorkflowInv, WorkflowSafety, RejectedUploadIsClosed
<1>9. RevisionIsOnRecord'
  <2>1. /\ revised \in Nat
        /\ from = "revision_requested" => revised = generation
        /\ from \in {"regenerating", "regeneration_failed"} => revised \in 1 .. generation - 1
        /\ generation > 1 => revised \in 1 .. generation
    BY <1>1 DEF WorkflowInv, TypeOK, WorkflowSafety, RevisionIsOnRecord
  <2>2. CASE to = "regenerating"
    <3>1. from \in {"revision_requested", "regeneration_failed"}
      BY <2>2, TransitionFacts
    <3>2. generation' = generation + 1 /\ revised' = revised
      BY <1>1, <2>2 DEF NextGeneration
    <3>3. revised \in 1 .. generation
      BY <1>2, <2>1, <3>1
    <3>4. QED
      BY <1>1, <1>2, <2>2, <3>2, <3>3 DEF RevisionIsOnRecord
  <2>3. CASE to = "regeneration_failed"
    <3>1. from = "regenerating"
      BY <2>3, TransitionFacts
    <3>2. generation' = generation /\ revised' = revised
      BY <1>1, <2>3 DEF NextGeneration
    <3>3. revised \in 1 .. generation - 1
      BY <2>1, <3>1
    <3>4. revised \in 1 .. generation
      BY <1>2, <2>1, <3>3
    <3>5. QED
      BY <1>1, <1>2, <2>3, <3>2, <3>3, <3>4 DEF RevisionIsOnRecord
  <2>4. CASE to \notin {"regenerating", "regeneration_failed"}
    <3>1. generation' = generation
      BY <1>1, <2>4 DEF NextGeneration
    <3>2. generation > 1 => revised' \in 1 .. generation
      BY <1>2, <2>1
    <3>3. QED
      BY <1>1, <1>2, <2>4, <3>1, <3>2 DEF RevisionIsOnRecord
  <2>5. QED
    BY <2>2, <2>3, <2>4
<1>10. QED
  BY <1>3, <1>4, <1>5, <1>6, <1>7, <1>8, <1>9 DEF WorkflowSafety

\* A state in which nothing safety speaks of changed is safe again.
LEMMA UnmovedIsSafe ==
  ASSUME WorkflowInv, UNCHANGED <<origin, reviewPolicy, row, review>>
  PROVE  WorkflowSafety'
BY DEF WorkflowInv, WorkflowSafety, row, ApprovalIsNeverHalfDone, ReleasedIsSignedOff,
       ReleasedStatus, RequiredSignoffs, CenterReviewsApprovedWork, SignoffsAreDated,
       ResidentGate, RejectedUploadIsClosed, RevisionIsOnRecord

\* The first content is safe (Init).
LEMMA InitWorkflowInv == Init => WorkflowInv
<1> SUFFICES ASSUME Init PROVE WorkflowInv
  OBVIOUS
<1>1. TypeOK
  BY InitTypeOK
<1>2. RequestsStandPermitted /\ OnlyResidentsAreReviewed
  BY DEF Init, RequestsStandPermitted, OnlyResidentsAreReviewed
<1>3. WorkflowSafety
  BY DEF Init, WorkflowSafety, ApprovalIsNeverHalfDone, ReleasedIsSignedOff, ReleasedStatus,
         CenterReviewsApprovedWork, SignoffsAreDated, ResidentGate, RejectedUploadIsClosed,
         RevisionIsOnRecord, Side
<1>4. QED
  BY <1>1, <1>2, <1>3 DEF WorkflowInv

\* A reporter's approval, both its hops at once, keeps the content safe
\* (approve, content-workflow.service.ts).
LEMMA ReporterApprovalIsSafe ==
  ASSUME WorkflowInv, NEW r \in Request, CommitReporterApproval(r)
  PROVE  WorkflowSafety'
<1>1. /\ request[r].from = "awaiting_reporter_review"
      /\ status = "awaiting_reporter_review"
      /\ origin = "reporter_upload"
  BY PermittedHops, TransitionFacts
     DEF CommitReporterApproval, HopApplies, StatusUnmoved, Loaded
<1>2. /\ status' = AfterReporterApproval(reviewPolicy)
      /\ signed' = [signed EXCEPT !["owner"] = generation]
      /\ UNCHANGED <<origin, reviewPolicy, generation, revised, review>>
  BY DEF CommitReporterApproval
<1>3. /\ generation \in Nat \ {0}
      /\ signed \in [Side -> Nat]
      /\ \A s \in Side : signed[s] <= generation
      /\ review # "rejected"
  BY <1>1 DEF WorkflowInv, TypeOK, WorkflowSafety, SignoffsAreDated, RejectedUploadIsClosed
<1>4. /\ signed'["owner"] = generation
      /\ \A s \in Side : signed'[s] <= generation
  BY <1>2, <1>3 DEF Side
<1>5. /\ status' \in {"awaiting_center_review", "publishing"}
      /\ status' = "publishing" => reviewPolicy # "reporter_then_center"
  BY <1>2 DEF AfterReporterApproval
<1>6. ReleasedIsSignedOff'
  BY <1>1, <1>2, <1>4, <1>5 DEF ReleasedIsSignedOff, ReleasedStatus, RequiredSignoffs
<1>7. RevisionIsOnRecord'
  BY <1>1, <1>2, <1>5 DEF WorkflowInv, WorkflowSafety, RevisionIsOnRecord
<1>8. QED
  BY <1>1, <1>2, <1>3, <1>4, <1>5, <1>6, <1>7
     DEF WorkflowSafety, ApprovalIsNeverHalfDone, CenterReviewsApprovedWork, SignoffsAreDated,
         ResidentGate, RejectedUploadIsClosed

\* No step of any operation, job event, reviewer or crash makes the content
\* unsafe (every handler of the service).
LEMMA NextWorkflowInv == WorkflowInv /\ [Next]_vars => WorkflowInv'
<1> SUFFICES ASSUME WorkflowInv, [Next]_vars PROVE WorkflowInv'
  OBVIOUS
<1>1. TypeOK' /\ RequestsStandPermitted'
  BY NextTypeOK, RequestsStayPermitted DEF WorkflowInv
<1>2. OnlyResidentsAreReviewed'
  BY DEF WorkflowInv, OnlyResidentsAreReviewed, Next, vars, Load, CommitReporterApproval,
         CommitHop, Conflict, SystemTransition, ReviewApprove, ReviewReject, Crash
<1>3. WorkflowSafety'
  <2>1. ASSUME NEW r \in Request, Load(r) PROVE WorkflowSafety'
    BY <2>1, UnmovedIsSafe DEF Load
  <2>2. ASSUME NEW r \in Request, CommitReporterApproval(r) PROVE WorkflowSafety'
    BY <2>2, ReporterApprovalIsSafe
  <2>3. ASSUME NEW r \in Request, CommitHop(r) PROVE WorkflowSafety'
    <3>1. /\ request[r].from \in Status
          /\ request[r].to \in CONTENT_STATUS_TRANSITIONS[request[r].from]
          /\ request[r].to # "reporter_approved"
          /\ request[r].to = "awaiting_center_review" /\ request[r].from # "reporter_approved"
               => origin # "reporter_upload"
          /\ request[r].to = "revision_requested" <=> request[r].op = "requestRevision"
      BY <2>3, PermittedHops DEF CommitHop, Loaded
    <3>2. request[r].from # "reporter_approved"
      BY <2>3 DEF CommitHop, ApplyHop, HopApplies, StatusUnmoved, WorkflowInv,
                  WorkflowSafety, ApprovalIsNeverHalfDone
    <3>3. QED
      BY <2>3, <3>1, <3>2, HopIsSafe DEF CommitHop
  <2>4. ASSUME NEW r \in Request, Conflict(r) PROVE WorkflowSafety'
    BY <2>4, UnmovedIsSafe DEF Conflict
  <2>5. ASSUME NEW edge \in SystemEdge, SystemTransition(edge[1], edge[2])
        PROVE  WorkflowSafety'
    <3>1. /\ edge[1] \in Status
          /\ edge[2] \in CONTENT_STATUS_TRANSITIONS[edge[1]]
          /\ edge[2] \notin {"reporter_approved", "center_approved", "revision_requested",
                             "regenerating"}
          /\ edge[2] = "awaiting_center_review" => edge[1] = "preview_generating"
      BY <2>5, StatusesAreListed DEF SystemEdge, PreviewReviewTarget, SystemTransition,
                                     CanTransitionContent
    <3>2. edge[2] = "awaiting_center_review" => origin # "reporter_upload"
      BY <2>5, <3>1 DEF SystemTransition, PolicyGuard
    <3>3. QED
      BY <2>5, <3>1, <3>2, HopIsSafe DEF SystemTransition
  <2>6. CASE ReviewApprove
    BY <2>6 DEF ReviewApprove, WorkflowInv, WorkflowSafety, row, ApprovalIsNeverHalfDone,
                ReleasedIsSignedOff, ReleasedStatus, RequiredSignoffs,
                CenterReviewsApprovedWork, SignoffsAreDated, ResidentGate,
                RejectedUploadIsClosed, RevisionIsOnRecord
  <2>7. CASE ReviewReject
    <3>1. CASE ApplyHop("uploaded", "canceled") /\ UNCHANGED <<signed, revised>>
      <4>1. "uploaded" \in Status /\ "canceled" \in CONTENT_STATUS_TRANSITIONS["uploaded"]
        BY StatusesAreListed, TransitionsOfEach
      <4>2. QED
        BY <2>7, <3>1, <4>1, HopIsSafe DEF ReviewReject
    <3>2. CASE status # "uploaded" /\ UNCHANGED row
      <4>1. status = "canceled"
        BY <2>7, <3>2 DEF ReviewReject, WorkflowInv, OnlyResidentsAreReviewed, WorkflowSafety,
                          ResidentGate
      <4>2. QED
        BY <2>7, <3>2, <4>1
           DEF ReviewReject, WorkflowInv, WorkflowSafety, row, ApprovalIsNeverHalfDone,
               ReleasedIsSignedOff, ReleasedStatus, RequiredSignoffs,
               CenterReviewsApprovedWork, SignoffsAreDated, ResidentGate,
               RejectedUploadIsClosed, RevisionIsOnRecord
    <3>3. QED
      BY <2>7, <3>1, <3>2 DEF ReviewReject
  <2>8. CASE Crash
    BY <2>8, UnmovedIsSafe DEF Crash
  <2>9. CASE UNCHANGED vars
    BY <2>9, UnmovedIsSafe DEF vars
  <2>10. QED
    BY <2>1, <2>2, <2>3, <2>4, <2>5, <2>6, <2>7, <2>8, <2>9 DEF Next
<1>4. QED
  BY <1>1, <1>2, <1>3 DEF WorkflowInv

\* The inductive invariant: types, the standing guards of running requests
\* and the safety of the content (content-workflow.service.ts as a whole).
THEOREM WorkflowSafe == Spec => []WorkflowInv
BY InitWorkflowInv, NextWorkflowInv, PTL DEF Spec

\* Nothing is released unless everybody its origin and policy call for
\* approved the generation that goes out (approve, regenerate, applyHop).
THEOREM ReleaseNeedsSignoff == Spec => []ReleasedIsSignedOff
<1>1. WorkflowInv => ReleasedIsSignedOff
  BY DEF WorkflowInv, WorkflowSafety
<1>2. QED
  BY <1>1, WorkflowSafe, PTL

\* The center only ever reviews a reporter's content that its reporter
\* approved in the same generation (policyGuard, afterReporterApproval).
THEOREM CenterComesSecond == Spec => []CenterReviewsApprovedWork
<1>1. WorkflowInv => CenterReviewsApprovedWork
  BY DEF WorkflowInv, WorkflowSafety
<1>2. QED
  BY <1>1, WorkflowSafe, PTL

\* No path leads resident content past the branch's review
\* (resident-review.gate.ts, assertResidentReviewApproved).
THEOREM ResidentsAreReviewed == Spec => []ResidentGate
<1>1. WorkflowInv => ResidentGate
  BY DEF WorkflowInv, WorkflowSafety
<1>2. QED
  BY <1>1, WorkflowSafe, PTL

\* An upload the branch rejected is a canceled content, whatever users do to
\* the content at the same time (resident-reviews.service.ts, cancelBySystem).
THEOREM RejectionsClose == Spec => []RejectedUploadIsClosed
<1>1. WorkflowInv => RejectedUploadIsClosed
  BY DEF WorkflowInv, WorkflowSafety
<1>2. QED
  BY <1>1, WorkflowSafe, PTL

\* reporter_approved is never read: an approval and the hop it chains are one
\* for every request and operator (approve).
THEOREM ApprovalsAreWhole == Spec => []ApprovalIsNeverHalfDone
<1>1. WorkflowInv => ApprovalIsNeverHalfDone
  BY DEF WorkflowInv, WorkflowSafety
<1>2. QED
  BY <1>1, WorkflowSafe, PTL

\* Nothing is reworked without a request that says what to change
\* (requestRevision, regenerate, retry).
THEOREM ReviewsAreRecorded == Spec => []RevisionIsOnRecord
<1>1. WorkflowInv => RevisionIsOnRecord
  BY DEF WorkflowInv, WorkflowSafety
<1>2. QED
  BY <1>1, WorkflowSafe, PTL

\* The audit rows of a transaction always join up (applyHop and the two hops
\* of a reporter's approval).
THEOREM AuditTrail == Spec => AuditTrailJoinsUp
<1> DEFINE JoinsUp == status' # status =>
             /\ \A t \in lastTx' : CanTransitionContent(t[1], t[2])
             /\ \/ lastTx' = {<<status, status'>>}
                \/ \E via \in Status : lastTx' = {<<status, via>>, <<via, status'>>}
<1>1. ASSUME WorkflowInv, [Next]_vars PROVE JoinsUp
  <2>1. ASSUME NEW from, NEW to \in CONTENT_STATUS_TRANSITIONS[from], ApplyHop(from, to)
        PROVE  JoinsUp
    BY <2>1 DEF ApplyHop, HopApplies, StatusUnmoved, CanTransitionContent
  <2>2. ASSUME NEW r \in Request, CommitReporterApproval(r) PROVE JoinsUp
    <3>1. request[r].from = "awaiting_reporter_review" /\ status = request[r].from
      BY <1>1, <2>2, PermittedHops, TransitionFacts
         DEF CommitReporterApproval, HopApplies, StatusUnmoved, Loaded
    <3>2. /\ "reporter_approved" \in Status
          /\ CanTransitionContent("awaiting_reporter_review", "reporter_approved")
          /\ CanTransitionContent("reporter_approved", AfterReporterApproval(reviewPolicy))
      BY StatusesAreListed, TransitionsOfEach DEF CanTransitionContent, AfterReporterApproval
    <3>3. lastTx' = {<<status, "reporter_approved">>, <<"reporter_approved", status'>>}
      BY <2>2, <3>1 DEF CommitReporterApproval
    <3>4. status' = AfterReporterApproval(reviewPolicy)
      BY <2>2 DEF CommitReporterApproval
    <3>5. \A t \in lastTx' : CanTransitionContent(t[1], t[2])
      BY <3>1, <3>2, <3>3, <3>4
    <3>6. QED
      BY <3>2, <3>3, <3>5
  <2>3. ASSUME NEW r \in Request, CommitHop(r) PROVE JoinsUp
    BY <1>1, <2>1, <2>3, PermittedHops DEF CommitHop
  <2>4. ASSUME NEW edge \in SystemEdge, SystemTransition(edge[1], edge[2]) PROVE JoinsUp
    BY <2>1, <2>4 DEF SystemTransition, CanTransitionContent
  <2>5. CASE ReviewReject
    BY <2>1, <2>5, TransitionsOfEach DEF ReviewReject, row
  <2>6. CASE \/ \E r \in Request : Load(r) \/ Conflict(r)
             \/ ReviewApprove \/ Crash \/ UNCHANGED vars
    BY <2>6 DEF Load, Conflict, ReviewApprove, Crash, vars, row
  <2>7. QED
    BY <1>1, <2>2, <2>3, <2>4, <2>5, <2>6 DEF Next
<1>2. WorkflowInv /\ [Next]_vars => [JoinsUp]_vars
  BY <1>1
<1>3. QED
  BY <1>2, WorkflowSafe, PTL DEF Spec, AuditTrailJoinsUp

-------------------------------------------------------------------------------
(* The workflow implements ReleaseControl *)

\* The stage of every status, one by one (CONTENT_STATUS_TRANSITIONS).
LEMMA StageOfEach ==
  ASSUME NEW s \in Status
  PROVE  /\ s \in {"awaiting_reporter_review", "reporter_approved",
                   "awaiting_center_review", "center_approved"} <=> StageOf(s) = "review"
         /\ s = "revision_requested" <=> StageOf(s) = "rework"
         /\ s \in {"publishing", "publish_failed"} <=> StageOf(s) = "release"
         /\ s = "published" <=> StageOf(s) = "aired"
         /\ s \in {"rejected", "canceled", "archived"} <=> StageOf(s) = "closed"
         /\ StageOf(s) \in {"work", "review", "rework", "release", "aired", "closed"}
<1>1. TerminalStatus = {"rejected", "canceled", "archived"}
  BY StatusesAreListed, TransitionsOfEach DEF TerminalStatus
<1>2. QED
  BY <1>1 DEF StageOf

\* A fresh content is a version 1 nobody has signed off (Init).
LEMMA InitRefines == Init => Control!Init
<1> SUFFICES ASSUME Init PROVE Control!Init
  OBVIOUS
<1>1. status \in {"draft", "uploaded"}
  BY DEF Init
<1>2. StageOf(status) = "work"
  BY <1>1, NamedStatuses, StageOfEach
<1>3. SignoffsOfGeneration = {}
  BY DEF Init, SignoffsOfGeneration
<1>4. RequiredSignoffs \in SUBSET Side
  BY DEF RequiredSignoffs, Side
<1>5. QED
  BY <1>2, <1>3, <1>4 DEF Init, Control!Init

\* A hop of applyHop is a step of ReleaseControl, or none.
LEMMA HopRefines ==
  ASSUME WorkflowInv, WorkflowInv',
         NEW from \in Status, NEW to \in CONTENT_STATUS_TRANSITIONS[from],
         ApplyHop(from, to),
         UNCHANGED <<origin, reviewPolicy>>,
         signed' = IF to = "center_approved"
                     THEN [signed EXCEPT !["center"] = generation] ELSE signed
  PROVE  [Control!Next]_(Control!vars)
<1>1. /\ status = from
      /\ status' = to
      /\ generation' = NextGeneration(to)
      /\ to \in Status
      /\ from # "reporter_approved"
      /\ to # "reporter_approved"
  BY TransitionFacts DEF ApplyHop, HopApplies, StatusUnmoved, WorkflowInv, TypeOK,
                         WorkflowSafety, ApprovalIsNeverHalfDone
<1>2. RequiredSignoffs' = RequiredSignoffs
  BY DEF RequiredSignoffs
<1>3. /\ generation \in Nat
      /\ signed \in [Side -> Nat]
      /\ \A s \in Side : signed[s] <= generation
  BY DEF WorkflowInv, TypeOK, WorkflowSafety, SignoffsAreDated
<1>4. to \notin {"regenerating", "center_approved"} =>
        generation' = generation /\ SignoffsOfGeneration' = SignoffsOfGeneration
  BY <1>1 DEF NextGeneration, SignoffsOfGeneration
<1>5. CASE to = "regenerating"
  <2>1. generation' = generation + 1
    BY <1>1, <1>5 DEF NextGeneration
  <2>2. SignoffsOfGeneration' = {}
    BY <1>3, <1>5, <2>1 DEF SignoffsOfGeneration
  <2>3. StageOf(from) \in {"work", "rework"} /\ StageOf(to) = "work"
    <3>1. from \in {"revision_requested", "regeneration_failed"}
      BY <1>5, TransitionFacts
    <3>2. QED
      BY <1>1, <1>5, <3>1, StageOfEach
  <2>4. QED
    BY <1>1, <1>2, <2>1, <2>2, <2>3 DEF Control!Next, Control!NewVersion
<1>6. CASE to = "center_approved"
  <2>1. generation' = generation
    BY <1>1, <1>6 DEF NextGeneration
  <2>2. SignoffsOfGeneration' = SignoffsOfGeneration \union {"center"}
    BY <1>3, <1>6, <2>1 DEF SignoffsOfGeneration, Side
  <2>3. StageOf(from) = "review" /\ StageOf(to) = "review"
    BY <1>1, <1>6, TransitionFacts, StageOfEach
  <2>4. Control!SignOff("center")
    BY <1>1, <1>2, <2>1, <2>2, <2>3 DEF Control!SignOff
  <2>5. QED
    BY <2>4 DEF Control!Next, Side
<1>7. CASE to = "publishing"
  <2>1. from \in {"center_approved", "publish_failed"}
    BY <1>1, <1>7, TransitionFacts
  <2>2. CASE from = "publish_failed"
    <3>1. StageOf(from) = "release" /\ StageOf(to) = "release"
      BY <1>1, <1>7, <2>2, StageOfEach
    <3>2. QED
      BY <1>1, <1>2, <1>4, <1>7, <3>1 DEF Control!vars
  <2>3. CASE from = "center_approved"
    <3>1. StageOf(from) = "review" /\ StageOf(to) = "release"
      BY <1>1, <1>7, <2>3, StageOfEach
    <3>2. RequiredSignoffs \subseteq Side
      BY DEF RequiredSignoffs, Side
    <3>3. \A s \in RequiredSignoffs : signed[s] = generation
      BY <1>1, <1>2, <1>4, <1>7
         DEF WorkflowInv, WorkflowSafety, ReleasedIsSignedOff, ReleasedStatus
    <3>4. RequiredSignoffs \subseteq SignoffsOfGeneration
      BY <3>2, <3>3 DEF SignoffsOfGeneration
    <3>5. QED
      BY <1>1, <1>2, <1>4, <1>7, <3>1, <3>4 DEF Control!Next, Control!Release
  <2>4. QED
    BY <2>1, <2>2, <2>3
<1>8. CASE to \in {"awaiting_reporter_review", "awaiting_center_review"}
  <2>1. from = "preview_generating"
    BY <1>1, <1>8, StatusesAreListed, TransitionsOfEach
  <2>2. StageOf(from) = "work" /\ StageOf(to) = "review"
    BY <1>1, <1>8, <2>1, StageOfEach
  <2>3. QED
    BY <1>1, <1>2, <1>4, <1>8, <2>2 DEF Control!Next, Control!Submit
<1>9. CASE to = "revision_requested"
  <2>1. from \in {"awaiting_reporter_review", "awaiting_center_review"}
    BY <1>1, <1>9, StatusesAreListed, TransitionsOfEach
  <2>2. StageOf(from) = "review" /\ StageOf(to) = "rework"
    BY <1>1, <1>9, <2>1, StageOfEach
  <2>3. QED
    BY <1>1, <1>2, <1>4, <1>9, <2>2 DEF Control!Next, Control!SendBack
<1>10. CASE to \in {"published", "publish_failed"}
  <2>1. /\ StageOf(from) = "release"
        /\ StageOf(to) \in {"release", "aired"}
    BY <1>1, <1>10, TransitionFacts, StageOfEach
  <2>2. QED
    BY <1>1, <1>2, <1>4, <1>10, <2>1 DEF Control!Next, Control!Air, Control!vars
<1>11. CASE to \in {"rejected", "canceled", "archived"}
  <2>1. StageOf(from) # "closed" /\ StageOf(to) = "closed"
    BY <1>1, <1>11, TransitionFacts, StageOfEach
  <2>2. QED
    BY <1>1, <1>2, <1>4, <1>11, <2>1 DEF Control!Next, Control!Close
<1>12. CASE to \notin {"regenerating", "center_approved", "publishing",
                       "awaiting_reporter_review", "awaiting_center_review",
                       "revision_requested", "published", "publish_failed",
                       "rejected", "canceled", "archived"}
  <2>1. from \notin {"awaiting_reporter_review", "awaiting_center_review",
                     "center_approved", "revision_requested", "publishing",
                     "publish_failed", "published", "rejected", "canceled", "archived"}
    BY <1>1, <1>12, TransitionsOfEach
  <2>2. StageOf(from) = "work" /\ StageOf(to) = "work"
    BY <1>1, <1>12, <2>1, StageOfEach
  <2>3. QED
    BY <1>1, <1>2, <1>4, <1>12, <2>2 DEF Control!vars
<1>13. QED
  BY <1>5, <1>6, <1>7, <1>8, <1>9, <1>10, <1>11, <1>12

\* Every step of the workflow is a step of ReleaseControl, or none.
LEMMA NextRefines ==
  ASSUME WorkflowInv, WorkflowInv', [Next]_vars
  PROVE  [Control!Next]_(Control!vars)
<1>1. ASSUME NEW r \in Request, CommitReporterApproval(r)
      PROVE  [Control!Next]_(Control!vars)
  <2>1. /\ status = "awaiting_reporter_review"
        /\ status' \in {"awaiting_center_review", "publishing"}
        /\ signed' = [signed EXCEPT !["owner"] = generation]
        /\ UNCHANGED <<origin, reviewPolicy, generation>>
    BY <1>1, PermittedHops, TransitionFacts
       DEF CommitReporterApproval, HopApplies, StatusUnmoved, Loaded, AfterReporterApproval
  <2>2. /\ StageOf(status) = "review"
        /\ StageOf(status') \in {"review", "release"}
        /\ StageOf(status') = "release" => status' = "publishing"
    BY <2>1, StatusesAreListed, StageOfEach
  <2>3. SignoffsOfGeneration' = SignoffsOfGeneration \union {"owner"}
    BY <2>1 DEF SignoffsOfGeneration, Side, WorkflowInv, TypeOK
  <2>4. RequiredSignoffs' = RequiredSignoffs /\ RequiredSignoffs \subseteq Side
    BY <2>1 DEF RequiredSignoffs, Side
  <2>5. status' = "publishing" => RequiredSignoffs \subseteq SignoffsOfGeneration'
    BY <2>4 DEF WorkflowInv, WorkflowSafety, ReleasedIsSignedOff, ReleasedStatus,
                SignoffsOfGeneration
  <2>6. Control!SignOff("owner")
    BY <2>1, <2>2, <2>3, <2>4, <2>5 DEF Control!SignOff
  <2>7. QED
    BY <2>6 DEF Control!Next, Side
<1>2. ASSUME NEW r \in Request, CommitHop(r)
      PROVE  [Control!Next]_(Control!vars)
  BY <1>2, PermittedHops, HopRefines DEF CommitHop, Loaded
<1>3. ASSUME NEW edge \in SystemEdge, SystemTransition(edge[1], edge[2])
      PROVE  [Control!Next]_(Control!vars)
  <2>1. /\ edge[1] \in Status
        /\ edge[2] \in CONTENT_STATUS_TRANSITIONS[edge[1]]
        /\ edge[2] # "center_approved"
    BY <1>3, StatusesAreListed DEF SystemEdge, PreviewReviewTarget, SystemTransition,
                                   CanTransitionContent
  <2>2. QED
    BY <1>3, <2>1, HopRefines DEF SystemTransition
<1>4. CASE UNCHANGED <<origin, reviewPolicy, row>>
  BY <1>4 DEF row, Control!vars, RequiredSignoffs, SignoffsOfGeneration
<1>5. CASE ReviewReject /\ ApplyHop("uploaded", "canceled") /\ UNCHANGED signed
  BY <1>5, NamedStatuses, TransitionsOfEach, HopRefines DEF ReviewReject
<1>6. CASE \/ \E r \in Request : Load(r) \/ Conflict(r)
           \/ ReviewApprove \/ Crash \/ UNCHANGED vars
  BY <1>4, <1>6 DEF Load, Conflict, ReviewApprove, Crash, vars, row
<1>7. CASE ReviewReject
  BY <1>4, <1>5, <1>7 DEF ReviewReject
<1>8. QED
  BY <1>1, <1>2, <1>3, <1>6, <1>7 DEF Next

\* The 23-status workflow with its concurrent requests is a release control:
\* sign-offs belong to a version and are complete before its release.
THEOREM ImplementsControl == Spec => ImplementsReleaseControl
<1>1. WorkflowInv /\ WorkflowInv' /\ [Next]_vars => [Control!Next]_(Control!vars)
  BY NextRefines
<1>2. QED
  BY InitRefines, <1>1, WorkflowSafe, PTL DEF Spec, ImplementsReleaseControl, Control!Spec
===============================================================================
