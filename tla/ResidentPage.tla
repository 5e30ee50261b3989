------------------------------ MODULE ResidentPage ------------------------------
(***************************************************************************)
(* The upload page a resident opens from a link: upload/[token].tsx of the *)
(* subscriber app, with its query of the link (queries.ts), what it makes  *)
(* of the answer (gate.ts), and its uploader (dom-uploader.ts).            *)
(*                                                                         *)
(* The form is on the screen only while the last word on the link is       *)
(* "ready"; an upload that it started goes on without it.  The link and    *)
(* its uploads on the server are those of ResidentUpload, one slot a       *)
(* ticket; here they are what the page's requests meet.                    *)
(***************************************************************************)
EXTENDS Naturals, FiniteSets

CONSTANTS
  MaxUploads,            \* slots of the link
  Limit,                 \* maxFileSizeBytes of the link's view
  MaxPicks, MaxSends,    \* bounds on what the resident does
  MaxGlitches,           \* bound on lost answers and broken connections
  MaxLooks               \* bound on returns to the window

VARIABLES
  link,                  \* the server: [known, lapsed, left]
  stored, received,      \* uploads whose object arrived, and those it has received
  view, failure,         \* the query's data ("none" before any) and error
  read,                  \* its request: [pc, answer, fresh]
  form,                  \* the form, as it is or would be drawn first
  picked,                \* the file the resident chose last
  upload,                \* upload(): one per press of the button
  behind,                \* an upload ended that the view does not know of
  picks, sends, glitches, looks

server == <<link, stored, received>>
query == <<view, failure, read>>
bounds == <<picks, sends, glitches, looks>>
residentPageVars == <<server, query, form, picked, upload, behind, bounds>>

Run == 1 .. MaxSends
File == [type : {"video", "none", "image"}, size : {0, 1, Limit, Limit + 1}]
NoFile == [type |-> "none", size |-> 0]

NoForm ==
  [file |-> NoFile, has |-> FALSE, refused |-> FALSE, done |-> FALSE, error |-> FALSE, busy |-> FALSE]
NoRun == [pc |-> "none", file |-> NoFile, shown |-> FALSE, stopped |-> FALSE]
NoRead == [pc |-> "none", answer |-> "none", fresh |-> FALSE]

View == {"none", "ready", "expired", "exhausted"}

ResidentPageTypeOK ==
  /\ link \in [known : BOOLEAN, lapsed : BOOLEAN, left : 0 .. MaxUploads]
  /\ received \subseteq stored /\ stored \subseteq Run
  /\ view \in View /\ failure \in {"none", "network", "404", "429"}
  /\ read.pc \in {"none", "sent", "read"}
  /\ form.done \in BOOLEAN /\ form.file \in File \cup {NoFile}
  /\ \A r \in Run : upload[r].pc \in {"none", "create", "put", "complete", "over"}
  /\ Cardinality({r \in Run : upload[r].shown /\ upload[r].pc \in {"create", "put", "complete"}}) <= 1

ResidentPageInit ==
  /\ link \in [known : BOOLEAN, lapsed : {FALSE}, left : {MaxUploads}]
  /\ stored = {} /\ received = {}
  /\ view = "none" /\ failure = "none" /\ read = [NoRead EXCEPT !.pc = "sent"]
  /\ form = NoForm /\ picked = NoFile /\ upload = [r \in Run |-> NoRun] /\ behind = FALSE
  /\ picks = 0 /\ sends = 0 /\ glitches = 0 /\ looks = 0

-------------------------------------------------------------------------------
(* What the page makes of its link *)

ResolveResidentLinkGate(v, f) ==
  IF f = "404" THEN "unknown_link"
  ELSE IF f # "none" THEN "error" ELSE IF v = "none" THEN "loading" ELSE v

Gate == ResolveResidentLinkGate(view, failure)

\* The form is drawn, kept or taken away as the gate says.
Draws(v, f) ==
  LET stays == Gate = "ready" /\ ResolveResidentLinkGate(v, f) = "ready"
  IN  /\ form' = IF stays THEN form ELSE NoForm
      /\ upload' = IF stays THEN upload
                   ELSE [r \in Run |-> [upload[r] EXCEPT !.shown = FALSE]]

-------------------------------------------------------------------------------
(* The query of the link (retry: false, staleTime: 0) *)

\* A request while one is under way starts over if there is data, else it is the same.
Asked ==
  IF read.pc # "none" /\ view = "none" THEN read ELSE [NoRead EXCEPT !.pc = "sent"]

\* The window gets the focus, or "try again" is pressed.
AsksAgain ==
  /\ read.pc = "none" /\ looks < MaxLooks /\ looks' = looks + 1
  /\ read' = Asked
  /\ failure' = IF view = "none" THEN "none" ELSE failure
  /\ UNCHANGED <<server, view, form, picked, upload, behind, picks, sends, glitches>>

\* describe
Describe ==
  /\ read.pc = "sent"
  /\ read' = [pc |-> "read", fresh |-> TRUE,
              answer |-> IF ~link.known THEN "404"
                         ELSE IF link.lapsed THEN "expired"
                         ELSE IF link.left = 0 THEN "exhausted" ELSE "ready"]
  /\ UNCHANGED <<server, view, failure, form, picked, upload, behind, bounds>>

Answered ==
  /\ read.pc = "read" /\ read' = NoRead
  /\ LET v == IF read.answer = "404" THEN view ELSE read.answer
         f == IF read.answer = "404" THEN "404" ELSE "none"
     IN  view' = v /\ failure' = f /\ Draws(v, f)
  /\ behind' = (behind /\ ~read.fresh)
  /\ UNCHANGED <<server, picked, bounds>>

\* The request is lost or slow (20 s), or it is one too many.
Unanswered ==
  /\ read.pc # "none" /\ glitches < MaxGlitches /\ glitches' = glitches + 1
  /\ read' = NoRead
  /\ \E f \in {"network", "429"} : failure' = f /\ Draws(view, f)
  /\ UNCHANGED <<server, view, picked, behind, picks, sends, looks>>

-------------------------------------------------------------------------------
(* The form *)

\* toPickedVideo: a file without a type is taken for a video.
ToPickedVideo(file) == [file EXCEPT !.type = IF @ = "none" THEN "video" ELSE @]

CheckSelectedVideo(file) == file.type = "video" /\ file.size > 0 /\ file.size <= Limit

\* pick: what was said before goes, then the file is taken or refused; a closed dialog
\* leaves the file that was there.
Pick ==
  /\ Gate = "ready" /\ ~form.busy /\ picks < MaxPicks /\ picks' = picks + 1
  /\ LET cleared == [form EXCEPT !.refused = FALSE, !.error = FALSE, !.done = FALSE]
     IN  \/ form' = cleared /\ UNCHANGED picked
         \/ \E f \in File :
              LET file == ToPickedVideo(f)
                  ok == CheckSelectedVideo(file)
              IN  /\ picked' = file
                  /\ form' = [cleared EXCEPT !.has = ok, !.refused = ~ok,
                                             !.file = IF ok THEN file ELSE NoFile]
  /\ UNCHANGED <<server, query, upload, behind, sends, glitches, looks>>

Send ==
  /\ Gate = "ready" /\ form.has /\ ~form.busy /\ sends < MaxSends
  /\ sends' = sends + 1
  /\ upload' = [upload EXCEPT ![sends'] =
       [pc |-> "create", file |-> form.file, shown |-> TRUE, stopped |-> FALSE]]
  /\ form' = [form EXCEPT !.error = FALSE, !.busy = TRUE]
  /\ UNCHANGED <<server, query, picked, behind, picks, glitches, looks>>

\* onChanged: whatever came of it, the link is asked again.
Changed(done) == Asked

\* catch and finally of upload(): a form that is still there says how it ended.
End(r, done, error) ==
  /\ upload' = [upload EXCEPT ![r] = [NoRun EXCEPT !.pc = "over", !.stopped = upload[r].stopped]]
  /\ form' = IF ~upload[r].shown THEN form
             ELSE [form EXCEPT !.busy = FALSE, !.error = error, !.done = @ \/ done,
                               !.has = @ /\ ~done, !.file = IF done THEN NoFile ELSE @]
  /\ read' = Changed(done) /\ behind' = TRUE
  /\ UNCHANGED <<view, failure, picked, picks, sends, looks>>

Goes(r, pc) ==
  /\ upload' = [upload EXCEPT ![r].pc = pc]
  /\ UNCHANGED <<query, form, picked, behind, bounds>>

\* A request fails or its answer is lost: the form has a message for each.
Glitch == glitches < MaxGlitches /\ glitches' = glitches + 1

\* "Stop": the PUT is given up, before it begins or on its way.
Stop ==
  /\ Gate = "ready" /\ form.busy
  /\ \E r \in Run :
       /\ upload[r].shown
       /\ \/ /\ upload[r].pc = "create" /\ ~upload[r].stopped
             /\ upload' = [upload EXCEPT ![r].stopped = TRUE]
             /\ UNCHANGED <<query, form, picked, behind, bounds>>
          \/ /\ upload[r].pc = "put"
             /\ upload' = [upload EXCEPT ![r] = [NoRun EXCEPT !.pc = "over", !.stopped = TRUE]]
             /\ form' = [form EXCEPT !.busy = FALSE]
             /\ read' = Changed(FALSE) /\ behind' = TRUE
             /\ UNCHANGED <<view, failure, picked, bounds>>
  /\ UNCHANGED server

-------------------------------------------------------------------------------
(* An upload *)

\* What the server takes: zResidentUploadRequest and the size check of createUpload.
Acceptable(file) == file.type = "video" /\ file.size > 0 /\ file.size <= Limit
Open == link.known /\ ~link.lapsed /\ link.left > 0

\* putVideo starts, unless the upload was stopped while it had no request to give up.
Begins(r) == IF upload[r].stopped THEN "over" ELSE "put"

\* createUpload: a ticket for a slot, a refusal, or an answer that is lost.
Create(r) ==
  /\ upload[r].pc = "create" /\ UNCHANGED <<stored, received>>
  /\ LET granted == Open /\ Acceptable(upload[r].file)
     IN  /\ link' = [link EXCEPT !.left = IF granted THEN @ - 1 ELSE @]
         /\ \/ /\ granted /\ Begins(r) = "put" /\ Goes(r, "put")
            \/ /\ granted /\ Begins(r) = "over" /\ End(r, FALSE, FALSE)
               /\ UNCHANGED glitches
            \/ ~granted /\ End(r, FALSE, TRUE) /\ UNCHANGED glitches
            \/ Glitch /\ End(r, FALSE, TRUE)

\* The storage has it all ...
Arrive(r) ==
  /\ upload[r].pc = "put" /\ r \notin stored
  /\ stored' = stored \cup {r}
  /\ UNCHANGED <<link, received, query, form, picked, upload, behind, bounds>>

\* ... and says so, or refuses; or the connection breaks.
PutEnds(r) ==
  /\ upload[r].pc = "put" /\ UNCHANGED server
  /\ \/ r \in stored /\ Goes(r, "complete")
     \/ Glitch /\ End(r, FALSE, TRUE)

\* completeUpload: the upload is received, or is received without the page being told.
Complete(r) ==
  /\ upload[r].pc = "complete" /\ UNCHANGED <<link, stored>>
  /\ received' = received \cup {r}
  /\ \/ End(r, TRUE, FALSE) /\ UNCHANGED glitches
     \/ Glitch /\ End(r, FALSE, TRUE)

\* The object is gone or too large when the server looks: the slot is given back.
CompleteFails(r) ==
  /\ upload[r].pc = "complete" /\ Glitch
  /\ link' = [link EXCEPT !.left = @ + 1] /\ UNCHANGED <<stored, received>>
  /\ End(r, FALSE, TRUE)

\* Others use the link, and its 72 hours end.
LinkMoves ==
  /\ \/ link.left > 0 /\ link' = [link EXCEPT !.left = @ - 1]
     \/ ~link.lapsed /\ link' = [link EXCEPT !.lapsed = TRUE]
  /\ looks < MaxLooks /\ looks' = looks + 1
  /\ UNCHANGED <<stored, received, query, form, picked, upload, behind, picks, sends, glitches>>

ResidentPageNext ==
  \/ AsksAgain \/ Describe \/ Answered \/ Unanswered \/ Pick \/ Send \/ Stop \/ LinkMoves
  \/ \E r \in Run : Create(r) \/ Arrive(r) \/ PutEnds(r) \/ Complete(r) \/ CompleteFails(r)

-------------------------------------------------------------------------------
(* Properties *)

\* What the form offers to send is what the server takes, and it refuses nothing else.
FormKnowsTheFile == (form.has => Acceptable(form.file)) /\ (form.refused => ~Acceptable(picked))

\* An upload the resident stopped before it was all there never reaches the branch.
StoppedIsNotReceived == \A r \in received : ~upload[r].stopped

\* The page that offers no "try again" speaks of a link that is as it says.
DeadEndIsTrue ==
  /\ Gate = "unknown_link" => ~link.known
  /\ Gate = "expired" => link.lapsed

\* When the page is at rest, what it says of the link is not older than its own uploads.
ViewKnowsItsUploads == read.pc = "none" /\ failure = "none" => ~behind

===============================================================================
