-------------------------------- MODULE MC_Upload --------------------------------
(* The two ways a file comes in, so that a behaviour moves one of them: Upload  *)
(* for one content and two file extensions, ResidentUpload for one link.        *)
EXTENDS Upload

CONSTANTS Resident, MaxUploads, MaxIds, MaxReviews, MaxCopies, MaxLostRequests

\* The branch is not one of the residents.
ASSUME LinkAssumption ==
  /\ MaxUploads \in Nat /\ MaxIds \in Nat /\ MaxReviews \in Nat
  /\ MaxCopies \in Nat /\ MaxLostRequests \in Nat
  /\ "branch" \notin Resident

VARIABLES
  focus,
  usedCount, expired, upload, contents, content, original, stored, added, page, received,
  ids, reviews, copies, lostRequests, unsent, overlapped

Link == INSTANCE ResidentUpload
          WITH MaxDeaths <- MaxLostRequests, object <- stored, transcode <- added,
               requests <- received, deaths <- lostRequests, raced <- overlapped

linkVars ==
  <<usedCount, expired, upload, contents, content, original, stored, added, page, received,
    ids, reviews, copies, lostRequests, unsent, overlapped>>
allVars == <<focus, vars, linkVars>>

BothInit == focus \in {"content", "link"} /\ Init /\ Link!Init

OnContent == focus = "content" /\ UNCHANGED <<focus, linkVars>>
OnLink == focus = "link" /\ UNCHANGED <<focus, vars>>

ContentNext == OnContent /\ Next
LinkNext == OnLink /\ Link!Next

ContentHandler == OnContent /\ Handler
ContentTransfer == OnContent /\ Transfer
ContentConnectionLost == OnContent /\ ConnectionLost

BothSpec ==
  /\ BothInit /\ [][ContentNext \/ LinkNext]_allVars
  /\ WF_allVars(ContentHandler) /\ WF_allVars(ContentTransfer)
  /\ WF_allVars(ContentConnectionLost)

\* The uploads of a content: an issued upload can be found and completed, an upload that is
\* done was received, and the transcode reads an object that is there.
UploadsAreWhole == TypeOK /\ IssuedIsFindable /\ TranscodeHasObject /\ DoneIsUploaded

\* No completion strands its content, every attempt ends, and what was uploaded is
\* transcoded.
UploadsEnd == CompletionNeverStrands /\ AttemptsEnd /\ UploadedIsTranscoded

\* The uploads of a link: its slots hold, a received upload is one content with a file, what a
\* resident is told is true, and the branch's decision stands and is carried out.
LinksHold ==
  /\ Link!TypeOK /\ Link!SlotsHold /\ Link!OneContentPerUpload
  /\ Link!ReceivedIsOnRecord /\ Link!RejectedStaysOut
  /\ Link!TranscodeHasSource /\ Link!ApprovedIsTranscoded
===============================================================================
