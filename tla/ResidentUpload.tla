------------------------------ MODULE ResidentUpload ------------------------------
(***************************************************************************)
(* Anonymous uploads through a resident link: the upload page of the       *)
(* subscriber app (apps/subscriber/app/upload), the handlers of the link   *)
(* (resident-links.service.ts) and the branch's review                     *)
(* (resident-reviews.service.ts).                                          *)
(*                                                                         *)
(* A link has a number of slots; a slot is taken when an upload is issued  *)
(* and given back when its completion finds nothing to receive.  A         *)
(* received upload becomes a content that waits, as uploaded, for the      *)
(* branch: approval starts its transcode, rejection closes it.             *)
(***************************************************************************)
EXTENDS Naturals, FiniteSets

CONSTANTS
  Resident,              \* pages that have the link open
  MaxUploads,            \* slots of the link (resident_upload_links.max_uploads)
  MaxIds,                \* bound on the uploads ever issued
  MaxReviews,            \* bound on the decisions the branch asks for
  MaxCopies,             \* bound on completions the network delivers twice
  MaxDeaths              \* bound on requests that die on the server

VARIABLES
  usedCount, expired,    \* the link
  upload,                \* resident_uploads.status per upload
  contents,              \* how many contents its completions have created
  content,               \* contents.status of the one it is linked to
  original,              \* whether that content has the row of its original
  object,                \* the bucket: what was put for the upload
  transcode,             \* uploads whose transcode was added
  page,                  \* what each resident is doing
  requests,              \* requests the server works on
  ids, reviews, copies, deaths, unsent,
  raced                  \* uploads of which two completions were received at a time

link == <<usedCount, expired>>
rows == <<upload, contents, content, original>>
counters == <<ids, reviews, copies, deaths, unsent, raced>>
vars == <<link, rows, object, transcode, page, requests, counters>>

Id == 1 .. MaxIds

ResidentUploadStatus ==
  {"none", "pending", "upload_failed", "awaiting_branch_review", "approved", "rejected"}

-------------------------------------------------------------------------------
(* The page *)

Ask(p, step, id) ==
  [op |-> step, by |-> p, id |-> id, pc |-> "load", seen |-> "none", copy |-> 0]

\* upload(): ticket, put, completion; whatever fails ends it, with a message.
Continue(p, ok, open) ==
  /\ page' = [page EXCEPT ![p] =
       IF ok /\ @.step = "create" THEN [@ EXCEPT !.step = "put"]
       ELSE [@ EXCEPT !.step = "idle", !.told = ok]]
  /\ requests' = open

Send(p) ==
  /\ page[p].step = "idle"
  /\ ids < MaxIds
  /\ ids' = ids + 1
  /\ page' = [page EXCEPT ![p] = [step |-> "create", id |-> ids', told |-> FALSE]]
  /\ requests' = requests \union {Ask(p, "create", ids')}
  /\ UNCHANGED <<link, rows, object, transcode, reviews, copies, deaths, unsent, raced>>

\* putVideo; the file may turn out larger than the size that was declared.
Put(p) ==
  /\ page[p].step = "put"
  /\ \E size \in {"fits", "oversized"} : object' = [object EXCEPT ![page[p].id] = size]
  /\ page' = [page EXCEPT ![p].step = "complete"]
  /\ requests' = requests \union {Ask(p, "complete", page[p].id)}
  /\ UNCHANGED <<link, rows, transcode, counters>>

\* The put fails or is stopped, or the twenty seconds of a request are over:
\* the page gives up without telling the server.
GiveUp(p) ==
  /\ page[p].step # "idle"
  /\ Continue(p, FALSE, requests)
  /\ UNCHANGED <<link, rows, object, transcode, counters>>

-------------------------------------------------------------------------------
(* The handlers *)

Goto(r, pc) ==
  /\ requests' = (requests \ {r}) \union
       {[r EXCEPT !.pc = pc, !.seen = IF r.by = "branch" /\ r.pc = "load" THEN upload[r.id] ELSE @]}
  /\ UNCHANGED page

Reply(r, ok) ==
  IF r.by \in Resident /\ r.copy = 0 /\ page[r.by].step = r.op /\ page[r.by].id = r.id
    THEN Continue(r.by, ok, requests \ {r})
    ELSE requests' = requests \ {r} /\ UNCHANGED page

\* createUpload: the link may expire between the look and the claim.
LoadLink(r) ==
  /\ r.op = "create" /\ r.pc = "load"
  /\ IF expired THEN Reply(r, FALSE) ELSE Goto(r, "claim")
  /\ UNCHANGED <<link, rows, object, transcode, counters>>

\* The faulty version for the mutant checks: the slots are counted, not looked at.
Claim_LooksOnly(r) ==
  /\ r.pc = "claim"
  /\ usedCount' = usedCount + 1
  /\ Goto(r, "insert")
  /\ UNCHANGED <<expired, rows, object, transcode, counters>>

\* One conditional update takes the slot.
Claim(r) ==
  /\ r.pc = "claim"
  /\ IF usedCount < MaxUploads /\ ~ expired
       THEN usedCount' = usedCount + 1 /\ Goto(r, "insert")
       ELSE UNCHANGED usedCount /\ Reply(r, FALSE)
  /\ UNCHANGED <<expired, rows, object, transcode, counters>>

\* presignPut and the row; an error gives the slot back.
InsertUpload(r) ==
  /\ r.pc = "insert"
  /\ \/ upload' = [upload EXCEPT ![r.id] = "pending"] /\ Reply(r, TRUE)
     \/ UNCHANGED upload /\ Goto(r, "release")
  /\ UNCHANGED <<link, contents, content, original, object, transcode, counters>>

ReleaseSlot(r) ==
  /\ r.pc = "release"
  /\ usedCount' = IF usedCount > 0 THEN usedCount - 1 ELSE 0
  /\ Reply(r, FALSE)
  /\ UNCHANGED <<expired, rows, object, transcode, counters>>

Receiving(id) ==
  \E r \in requests : r.op = "complete" /\ r.id = id /\ r.pc \in {"head", "fail", "accept"}

Receive(r) ==
  /\ Goto(r, "head")
  /\ raced' = IF Receiving(r.id) THEN raced \union {r.id} ELSE raced

\* completeUpload: an upload that was received already only has its original
\* completed, anything else that is not pending is refused.
LoadUpload(r) ==
  /\ r.op = "complete" /\ r.pc = "load"
  /\ CASE upload[r.id] = "awaiting_branch_review" -> Goto(r, "original") /\ UNCHANGED raced
       [] upload[r.id] = "pending" -> Receive(r)
       [] OTHER -> Reply(r, FALSE) /\ UNCHANGED raced
  /\ UNCHANGED <<link, rows, object, transcode, ids, reviews, copies, deaths, unsent>>

HeadObject(r) ==
  /\ r.pc = "head"
  /\ Goto(r, IF object[r.id] = "fits" THEN "accept" ELSE "fail")
  /\ UNCHANGED <<link, rows, object, transcode, counters>>

\* failUpload: the row only if it is pending, the slot in any case.
FailUpload(r) ==
  /\ r.pc = "fail"
  /\ upload' = [upload EXCEPT ![r.id] = IF @ = "pending" THEN "upload_failed" ELSE @]
  /\ Goto(r, "release")
  /\ UNCHANGED <<link, contents, content, original, object, transcode, counters>>

\* The transaction creates the content and links it, whatever the row's status
\* has become since it was loaded.
Accept(r) ==
  /\ r.pc = "accept"
  /\ upload' = [upload EXCEPT ![r.id] = "awaiting_branch_review"]
  /\ contents' = [contents EXCEPT ![r.id] = @ + 1]
  /\ content' = [content EXCEPT ![r.id] = "uploaded"]
  /\ original' = [original EXCEPT ![r.id] = FALSE]
  /\ Goto(r, "original")
  /\ UNCHANGED <<link, object, transcode, counters>>

\* ensureOriginalAsset; running it again changes nothing.
EnsureOriginal(r) ==
  /\ r.pc = "original"
  /\ original' = [original EXCEPT ![r.id] = TRUE]
  /\ Reply(r, TRUE)
  /\ UNCHANGED <<link, upload, contents, content, object, transcode, counters>>

-------------------------------------------------------------------------------
(* The branch *)

\* The branch opens an item of its queue and decides; the same item may be
\* open on two screens.
Review(op, id) ==
  /\ reviews < MaxReviews
  /\ upload[id] = "awaiting_branch_review"
  /\ reviews' = reviews + 1
  /\ requests' = requests \union {[Ask("branch", op, id) EXCEPT !.copy = reviews]}
  /\ UNCHANGED <<link, rows, object, transcode, page, ids, copies, deaths, unsent, raced>>

\* loadForReview; an approval also needs the original it will transcode.
LoadForReview(r) ==
  /\ r.op \in {"approve", "reject"} /\ r.pc = "load"
  /\ Goto(r, IF r.op = "approve" THEN "source" ELSE "decide")
  /\ UNCHANGED <<link, rows, object, transcode, counters>>

RequireSource(r) ==
  /\ r.pc = "source"
  /\ IF ~ original[r.id] THEN Reply(r, FALSE) ELSE Goto(r, "decide")
  /\ UNCHANGED <<link, rows, object, transcode, counters>>

Decision(r) == IF r.op = "approve" THEN "approved" ELSE "rejected"

\* The conditional update of decide.
Decides(r) ==
  r.seen = "awaiting_branch_review" /\ upload[r.id] = "awaiting_branch_review"

\* ... or somebody has decided the same before.
AlreadyDecided(r) ==
  \/ r.seen = Decision(r)
  \/ r.seen = "awaiting_branch_review" /\ upload[r.id] = Decision(r)

\* A rejection and the closing of its content share a transaction; an approval
\* goes on to enterPipeline.
Decide(r) ==
  /\ r.pc = "decide"
  /\ \/ Decides(r) /\ upload' = [upload EXCEPT ![r.id] = Decision(r)]
     \/ ~ Decides(r) /\ UNCHANGED upload
  /\ IF (Decides(r) \/ AlreadyDecided(r)) /\ r.op = "reject" /\ content[r.id] = "uploaded"
       THEN content' = [content EXCEPT ![r.id] = "canceled"] ELSE UNCHANGED content
  /\ IF (Decides(r) \/ AlreadyDecided(r)) /\ r.op = "approve"
       THEN Goto(r, "enter") ELSE Reply(r, FALSE)
  /\ UNCHANGED <<link, contents, original, object, transcode, counters>>

\* enterPipeline: the gate, and a content that has not moved on yet.
EnterPipeline(r) ==
  /\ r.pc = "enter"
  /\ IF upload[r.id] = "approved" /\ content[r.id] = "uploaded"
       THEN Goto(r, "enqueue") ELSE Reply(r, FALSE)
  /\ UNCHANGED <<link, rows, object, transcode, counters>>

\* After the commit; an error answers the request and rolls nothing back.
EnqueueTranscode(r) ==
  /\ r.pc = "enqueue"
  /\ \/ original[r.id] /\ transcode' = transcode \union {r.id} /\ UNCHANGED unsent
     \/ unsent' = unsent \union {r.id} /\ UNCHANGED transcode
  /\ Reply(r, TRUE)
  /\ UNCHANGED <<link, rows, object, ids, reviews, copies, deaths, raced>>

\* The transcode starts and takes the content out of the branch's hands.
StartTranscode(id) ==
  /\ id \in transcode /\ content[id] = "uploaded"
  /\ content' = [content EXCEPT ![id] = "processing"]
  /\ UNCHANGED <<link, upload, contents, original, object, transcode, page, requests, counters>>

-------------------------------------------------------------------------------
Expire ==
  /\ ~ expired
  /\ expired' = TRUE
  /\ UNCHANGED <<usedCount, rows, object, transcode, page, requests, counters>>

\* The network delivers a completion once more.
Redeliver(r) ==
  /\ r.op = "complete" /\ r.copy = 0 /\ r.pc = "load" /\ copies < MaxCopies
  /\ copies' = copies + 1
  /\ requests' = requests \union {[r EXCEPT !.copy = copies']}
  /\ UNCHANGED <<link, rows, object, transcode, page, ids, reviews, deaths, unsent, raced>>

\* A request is lost, or dies with the process that works on it.
Die(r) ==
  /\ deaths < MaxDeaths
  /\ deaths' = deaths + 1
  /\ requests' = requests \ {r}
  /\ UNCHANGED <<link, rows, object, transcode, page, ids, reviews, copies, unsent, raced>>

Init ==
  /\ usedCount = 0 /\ expired = FALSE
  /\ upload = [i \in Id |-> "none"] /\ contents = [i \in Id |-> 0]
  /\ content = [i \in Id |-> "none"] /\ original = [i \in Id |-> FALSE]
  /\ object = [i \in Id |-> "none"]
  /\ transcode = {}
  /\ page = [p \in Resident |-> [step |-> "idle", id |-> 0, told |-> FALSE]]
  /\ requests = {}
  /\ ids = 0 /\ reviews = 0 /\ copies = 0 /\ deaths = 0 /\ unsent = {} /\ raced = {}

Handler ==
  \E r \in requests :
    \/ LoadLink(r) \/ Claim(r) \/ InsertUpload(r) \/ ReleaseSlot(r)
    \/ LoadUpload(r) \/ HeadObject(r) \/ FailUpload(r) \/ Accept(r) \/ EnsureOriginal(r)
    \/ LoadForReview(r) \/ RequireSource(r) \/ Decide(r) \/ EnterPipeline(r)
    \/ EnqueueTranscode(r)

Page == \E p \in Resident : Put(p) \/ GiveUp(p)

Next ==
  \/ Handler \/ Page \/ Expire
  \/ \E p \in Resident : Send(p)
  \/ \E i \in Id : Review("approve", i) \/ Review("reject", i) \/ StartTranscode(i)
  \/ \E r \in requests : Redeliver(r) \/ Die(r)

Spec == Init /\ [][Next]_vars

-------------------------------------------------------------------------------
(* Properties *)

TypeOK ==
  /\ usedCount \in Nat /\ expired \in BOOLEAN
  /\ upload \in [Id -> ResidentUploadStatus]
  /\ content \in [Id -> {"none", "uploaded", "processing", "canceled"}]
  /\ original \in [Id -> BOOLEAN]
  /\ transcode \subseteq Id /\ unsent \subseteq Id /\ raced \subseteq Id
  /\ \A i \in Id : (contents[i] = 0) = (content[i] = "none")

Held == {"pending", "awaiting_branch_review", "approved", "rejected"}

\* A link never carries more uploads than it has slots, whatever is claimed and
\* given back at the same time, as long as no two completions of one upload are
\* received at a time.
SlotsHold ==
  raced = {} => /\ Cardinality({i \in Id : upload[i] \in Held}) <= usedCount
                /\ usedCount <= MaxUploads

\* One received upload is one content, however often its completion arrives, and
\* a content has its upload on record.
OneContentPerUpload ==
  \A i \in Id \ raced :
    contents[i] = IF upload[i] \in Held \ {"pending"} THEN 1 ELSE 0

\* What the branch rejects stays out of the pipeline for good.
RejectedStaysOut ==
  \A i \in Id \ raced : upload[i] = "rejected" => i \notin transcode /\ content[i] = "canceled"

\* A transcode that is added has a file to read, also when the completion was
\* delivered twice or died half-way.
TranscodeHasSource == \A i \in transcode : object[i] = "fits"

\* A resident who is told that the file was received finds it received.
ReceivedIsOnRecord ==
  \A p \in Resident : page[p].told => contents[page[p].id] > 0

\* An approved upload whose requests have all ended has its transcode, unless the queue
\* refused it or a request died after the decision (approve, enterPipeline).
ApprovedIsTranscoded ==
  \A i \in Id \ raced :
    upload[i] = "approved" /\ (\A r \in requests : r.id # i)
      => i \in transcode \/ i \in unsent \/ deaths > 0
===============================================================================
