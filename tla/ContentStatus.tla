---------------------------- MODULE ContentStatus ----------------------------
(***************************************************************************)
(* The content life cycle of packages/shared/src/content/workflow.ts: the  *)
(* 23 statuses, the transition map every service consults, the retry       *)
(* targets of the failure statuses and the policy that decides where a     *)
(* reporter's approval leads.                                              *)
(*                                                                         *)
(*   draft -> uploading -> uploaded -> processing -> analyzing             *)
(*         -> preview_generating -> awaiting_reporter_review               *)
(*         -> reporter_approved -> awaiting_center_review                  *)
(*         -> center_approved -> publishing -> published -> archived       *)
(*                                                                         *)
(* with a <stage>_failed status beside every working stage, the revision   *)
(* loop revision_requested -> regenerating, and the closed statuses        *)
(* rejected and canceled.                                                  *)
(***************************************************************************)

CONTENT_STATUS_TRANSITIONS ==
  [ draft                    |-> {"uploading", "canceled"},
    uploading                |-> {"uploaded", "upload_failed"},
    upload_failed            |-> {"uploading", "canceled"},
    uploaded                 |-> {"processing", "canceled"},
    processing               |-> {"analyzing", "preview_generating",
                                  "processing_failed", "canceled"},
    processing_failed        |-> {"processing", "canceled"},
    analyzing                |-> {"preview_generating", "analysis_failed", "canceled"},
    analysis_failed          |-> {"analyzing", "preview_generating", "canceled"},
    preview_generating       |-> {"awaiting_reporter_review",
                                  "awaiting_center_review", "preview_failed"},
    preview_failed           |-> {"preview_generating", "canceled"},
    awaiting_reporter_review |-> {"reporter_approved", "revision_requested",
                                  "rejected", "canceled"},
    revision_requested       |-> {"regenerating", "canceled"},
    regenerating             |-> {"analyzing", "preview_generating",
                                  "regeneration_failed"},
    regeneration_failed      |-> {"regenerating", "canceled"},
    reporter_approved        |-> {"awaiting_center_review", "publishing"},
    awaiting_center_review   |-> {"center_approved", "revision_requested", "rejected"},
    center_approved          |-> {"publishing"},
    publishing               |-> {"published", "publish_failed"},
    publish_failed           |-> {"publishing", "canceled"},
    published                |-> {"archived"},
    rejected                 |-> {},
    canceled                 |-> {},
    archived                 |-> {} ]

Status == DOMAIN CONTENT_STATUS_TRANSITIONS

CanTransitionContent(from, to) == to \in CONTENT_STATUS_TRANSITIONS[from]

\* isTerminalState: no way out.
TerminalStatus == {s \in Status : CONTENT_STATUS_TRANSITIONS[s] = {}}

CONTENT_RETRY_TARGET ==
  [ upload_failed       |-> "uploading",
    processing_failed   |-> "processing",
    analysis_failed     |-> "analyzing",
    preview_failed      |-> "preview_generating",
    regeneration_failed |-> "regenerating",
    publish_failed      |-> "publishing" ]

FailureStatus == DOMAIN CONTENT_RETRY_TARGET

ContentOrigin == {"reporter_upload", "live_vod", "resident_link"}

ReviewPolicies == {"reporter_only", "reporter_then_center"}

\* A faulty version for the mutant checks: every approval leads on air.
AfterReporterApproval_NoCenter(policy) == "publishing"

AfterReporterApproval(policy) ==
  IF policy = "reporter_then_center" THEN "awaiting_center_review" ELSE "publishing"

\* previewReviewTarget: only content a reporter uploaded has a reporter to review it.
PreviewReviewTarget(origin) ==
  IF origin = "reporter_upload" THEN "awaiting_reporter_review"
                                ELSE "awaiting_center_review"
==============================================================================
