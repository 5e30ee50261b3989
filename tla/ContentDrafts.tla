----------------------------- MODULE ContentDrafts -----------------------------
(***************************************************************************)
(* Writing a draft: the reporter's wizard that creates it                  *)
(* (app/contents/new), then the owner's edit screen, the captions screen   *)
(* of a colleague and other clients of the api, whose requests load the    *)
(* row, check it and write it later (contents.service.ts).                 *)
(***************************************************************************)
EXTENDS Naturals, Sequences

CONSTANTS
  Editor,                \* who may have a request running
  MaxScenes,             \* bound on the scenes of a form
  MaxSaves,              \* bound on the requests
  MaxUnanswered          \* bound on the answers the wizard misses

VARIABLES
  wizard,                \* the wizard: its step, its mode and what it knows of a draft
  drafts,                \* the rows it has created
  unanswered,            \* creations whose answer did not reach it
  row,                   \* one of the contents
  form,                  \* the scenes in an open form, by editor
  request,               \* the request of an editor
  saves

draftVars == <<wizard, drafts, unanswered, row, form, request, saves>>

Category == {"culture", "news"}
Same == "same"           \* a field the request leaves out
Closed == MaxScenes + 1  \* no form is open

-------------------------------------------------------------------------------
(* The wizard *)

Step == {"capture", "mode", "scenes", "classify"}

StepBack(step, mode) ==
  CASE step = "mode" -> "capture"
    [] step = "scenes" -> "mode"
    [] step = "classify" -> IF mode = "simple" THEN "mode" ELSE "scenes"
    [] OTHER -> "left"

\* Next: the mode screen leads to the scenes or past them.
Forward ==
  /\ wizard.step \in {"capture", "mode", "scenes"} /\ ~ wizard.pending
  /\ \/ wizard.step = "capture" /\ wizard' = [wizard EXCEPT !.step = "mode"]
     \/ \E mode \in {"simple", "precise"} :
          /\ wizard.step = "mode"
          /\ wizard' = [wizard EXCEPT !.mode = mode,
                                      !.step = IF mode = "simple" THEN "classify" ELSE "scenes"]
     \/ wizard.step = "scenes" /\ wizard' = [wizard EXCEPT !.step = "classify"]
  /\ UNCHANGED <<drafts, unanswered, row, form, request, saves>>

\* Back, also while the creation is under way: the screen that waits for its
\* answer is gone with it.  The wizard is left after a question.
Back ==
  /\ wizard.step \in Step
  /\ wizard.pending => unanswered < MaxUnanswered
  /\ unanswered' = IF wizard.pending THEN unanswered + 1 ELSE unanswered
  /\ wizard' = [wizard EXCEPT !.step = StepBack(wizard.step, wizard.mode), !.pending = FALSE]
  /\ UNCHANGED <<drafts, row, form, request, saves>>

\* The button waits for the answer.
MaySave == ~ wizard.pending

\* Save: the request reaches the api, which creates the row; a wizard that knows
\* its draft only goes on with it.
Create ==
  /\ wizard.step = "classify" /\ MaySave
  /\ IF wizard.saved
       THEN /\ UNCHANGED drafts /\ wizard' = [wizard EXCEPT !.step = "upload"]
       ELSE /\ drafts' = drafts + 1 /\ wizard' = [wizard EXCEPT !.pending = TRUE]
  /\ UNCHANGED <<unanswered, row, form, request, saves>>

\* Its answer, by which the screen marks the draft as saved and moves on.
Created ==
  /\ wizard.pending
  /\ \/ wizard' = [wizard EXCEPT !.pending = FALSE, !.saved = TRUE, !.step = "upload"]
        /\ UNCHANGED unanswered
     \/ /\ unanswered < MaxUnanswered
        /\ unanswered' = unanswered + 1
        /\ wizard' = [wizard EXCEPT !.pending = FALSE]
  /\ UNCHANGED <<drafts, row, form, request, saves>>

\* The upload screen keeps the way back to the steps closed: it leads out.
LeaveUpload ==
  /\ wizard.step = "upload"
  /\ wizard' = [wizard EXCEPT !.step = "left"]
  /\ UNCHANGED <<drafts, unanswered, row, form, request, saves>>

-------------------------------------------------------------------------------
(* The row *)

Editable == {"draft", "revision_requested"}
CaptionEditable == Editable \union {"uploading", "center_review"}

idle == [kind |-> "none"]

\* A form is filled once, from what the screen has read.
OpenForm(e) ==
  /\ form[e] = Closed
  /\ form' = [form EXCEPT ![e] = Len(row.scenes)]
  /\ UNCHANGED <<wizard, drafts, unanswered, row, request, saves>>

TypeScenes(e) ==
  /\ form[e] # Closed
  /\ \E n \in 0 .. MaxScenes : n # form[e] /\ form' = [form EXCEPT ![e] = n]
  /\ UNCHANGED <<wizard, drafts, unanswered, row, request, saves>>

\* validateScenes: the screens send one scene at least, which the api does not ask.
ValidScenes(n) == n >= 1

\* The requests: the edit screen sends every field, the captions screen the
\* scenes, another client whichever fields it likes, with any number of scenes.
Sends(e, r) ==
  /\ saves < MaxSaves /\ request[e] = idle
  /\ saves' = saves + 1
  /\ request' = [request EXCEPT ![e] = r]
  /\ UNCHANGED <<wizard, drafts, unanswered, row>>

Dto(kind, by, category, topics, scenes) ==
  [pc |-> "load", kind |-> kind, by |-> by,
   category |-> category, topics |-> topics, scenes |-> scenes]

SaveEdit(e) ==
  /\ form[e] # Closed /\ ValidScenes(form[e])
  /\ \E c \in Category :
       Sends(e, Dto("update", "screen", c, IF c = "culture" THEN "some" ELSE "none", form[e]))
  /\ form' = [form EXCEPT ![e] = Closed]

SaveCaptions(e) ==
  /\ form[e] # Closed /\ ValidScenes(form[e])
  /\ Sends(e, Dto("captions", "screen", Same, Same, form[e]))
  /\ form' = [form EXCEPT ![e] = Closed]

SavePart(e) ==
  /\ \E c \in Category \union {Same}, t \in {"some", "none", Same}, n \in 0 .. Closed :
       Sends(e, Dto("update", "client", c, t, n))
  /\ UNCHANGED form

\* The empty list takes all captions away.
SetCaptions(e) ==
  /\ \E n \in 0 .. MaxScenes : Sends(e, Dto("captions", "client", Same, Same, n))
  /\ UNCHANGED form

Merged(dto, field, old) == IF dto[field] = Same THEN old[field] ELSE dto[field]

\* The topics that go with the category, from the request or else from the row.
MergedTopics(dto, old) ==
  IF Merged(dto, "category", old) # "culture" /\ dto.topics = Same THEN "none"
  ELSE Merged(dto, "topics", old)

Fits(category, topics) == (category = "culture") = (topics = "some")

\* mergeScenes: a scene keeps the id of its place, the others get new ones, called
\* after the editor, who has one request at a time.
MergeScenes(old, n, e) == [i \in 1 .. n |-> IF i \in DOMAIN old THEN old[i] ELSE e]

\* The scenes are left as they are.
Nothing == [given |-> FALSE]

\* What update writes: category and topics together, as they were checked.
Data(dto, old, e) ==
  LET both == dto.category # Same \/ dto.topics # Same IN
  [category |-> IF both THEN Merged(dto, "category", old) ELSE Same,
   topics |-> IF both THEN MergedTopics(dto, old) ELSE Same,
   scenes |-> IF dto.scenes = Closed THEN Nothing
              ELSE [given |-> TRUE, loaded |-> old.scenes, by |-> dto.by,
                    list |-> MergeScenes(old.scenes, dto.scenes, e)]]

\* update and updateCaptions load the row and check it; a refused one is over.
Load(e) ==
  /\ request[e] # idle /\ request[e].pc = "load"
  /\ LET r == request[e] IN
     IF /\ row.status \in IF r.kind = "captions" THEN CaptionEditable ELSE Editable
        /\ Fits(Merged(r, "category", row), MergedTopics(r, row))
       THEN request' = [request EXCEPT ![e] = [kind |-> "data", pc |-> "write", data |-> Data(r, row, e)]]
       ELSE request' = [request EXCEPT ![e] = idle]
  /\ UNCHANGED <<wizard, drafts, unanswered, row, form, saves>>

\* The row is written whatever has become of it.
Write(e) ==
  /\ request[e] # idle /\ request[e].pc = "write"
  /\ LET data == request[e].data IN
     row' = [row EXCEPT !.category = IF data.category = Same THEN @ ELSE data.category,
                        !.topics = IF data.topics = Same THEN @ ELSE data.topics,
                        !.scenes = IF data.scenes.given THEN data.scenes.list ELSE @]
  /\ request' = [request EXCEPT ![e] = idle]
  /\ UNCHANGED <<wizard, drafts, unanswered, form, saves>>

\* Meanwhile the content moves on, and may come back for a revision.
MoveOn ==
  /\ \E step \in {<<"draft", "uploading">>, <<"uploading", "center_review">>,
                  <<"center_review", "revision_requested">>, <<"revision_requested", "center_review">>,
                  <<"center_review", "published">>} :
       row.status = step[1] /\ row' = [row EXCEPT !.status = step[2]]
  /\ UNCHANGED <<wizard, drafts, unanswered, form, request, saves>>

DraftInit ==
  /\ wizard = [step |-> "capture", mode |-> "precise", saved |-> FALSE, pending |-> FALSE]
  /\ drafts = 0 /\ unanswered = 0 /\ saves = 0
  /\ row \in [status : {"draft"}, category : Category, topics : {"some", "none"},
              scenes : {<<>>, <<"first">>}]
  /\ Fits(row.category, row.topics)
  /\ form = [e \in Editor |-> Closed] /\ request = [e \in Editor |-> idle]

WizardNext == Forward \/ Back \/ Create \/ Created \/ LeaveUpload

RowNext ==
  \/ \E e \in Editor :
       \/ OpenForm(e) \/ TypeScenes(e) \/ SaveEdit(e) \/ SaveCaptions(e)
       \/ SavePart(e) \/ SetCaptions(e) \/ Load(e) \/ Write(e)
  \/ MoveOn

-------------------------------------------------------------------------------
(* Properties *)

\* A wizard creates one draft, and another only for each creation whose answer
\* it never got, because it was lost or its screen had been left.
OneDraftPerWizard == drafts <= 1 + unanswered

\* A content has topics exactly when its category calls for them, although
\* requests that name one of the two are checked against rows that others change.
TopicsFitCategory == Fits(row.category, row.topics)

\* The scenes of a request are written in this step.
WritesScenes(e) ==
  /\ request[e] # idle /\ request[e].pc = "write" /\ request'[e] = idle
  /\ request[e].data.scenes.given

\* Captions disappear only when a client asks for it with the empty list: neither
\* a form that was opened when there were none, nor a request that leaves the
\* scenes out and was checked before a colleague filled them in, takes them away.
EmptiedOnRequest ==
  row.scenes # <<>> /\ row'.scenes = <<>> =>
    \E e \in Editor : WritesScenes(e) /\ request[e].data.scenes.by = "client"

CaptionsStay == [][EmptiedOnRequest]_row

\* A scene that stays in its place keeps its id, to which the notes of a revision
\* refer.  Excepted are requests that cross: the later one was merged into the
\* scenes it had loaded, and its ids replace those of the other.
SameIdsUnlessCrossed ==
  \A i \in DOMAIN row.scenes \intersect DOMAIN row'.scenes :
    \/ row'.scenes[i] = row.scenes[i]
    \/ \E e \in Editor : WritesScenes(e) /\ request[e].data.scenes.loaded # row.scenes

ScenesKeepTheirIds == [][SameIdsUnlessCrossed]_row
===============================================================================
