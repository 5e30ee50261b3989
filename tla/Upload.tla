--------------------------------- MODULE Upload ---------------------------------
(***************************************************************************)
(* Uploading the original of one content: the upload client of the         *)
(* reporter app (apps/reporter/src/upload) and the handlers it calls       *)
(* (services/api/src/upload), which share the content's row, the rows of   *)
(* its originals and the objects in the bucket.                            *)
(*                                                                         *)
(* An attempt asks for an upload url, puts the file into the bucket and    *)
(* reports completion; large files go up in parts that the completion      *)
(* assembles.  An attempt that fails says so: a single put by reporting    *)
(* completion all the same (the server then misses the object), one in     *)
(* parts by an abort.  A request whose answer is lost keeps running on the *)
(* server while its client goes on.                                        *)
(***************************************************************************)
EXTENDS Naturals, FiniteSets

CONSTANTS
  Client,                \* upload screens open on this content
  Key,                   \* storage keys, one per file extension
  Large,                 \* keys of files above MULTIPART_THRESHOLD_BYTES
  MaxAttempts,           \* bound on the attempts of all clients together
  MaxRecoveries,         \* bound on the recoveries of stalled uploads
  MaxDeaths              \* bound on the requests that die on the server

ASSUME UploadAssumption ==
  /\ Client # {} /\ Key # {} /\ Large \subseteq Key
  /\ MaxAttempts \in Nat /\ MaxRecoveries \in Nat /\ MaxDeaths \in Nat

VARIABLES
  status,                \* contents.status
  asset,                 \* media_assets.status of the original, per storage key
  object,                \* the bucket: the attempt that wrote the object, 0 if none
  parts,                 \* the bucket: attempts whose parts wait to be assembled
  transcode,             \* sources of the transcode jobs that were added
  client,                \* the upload screens
  requests,              \* requests the server works on
  issued,                \* the key the content went to uploading with
  moves,                 \* the hops of the content so far
  raced,                 \* a request changed an upload it does not belong to
  attempts, recoveries, deaths

bucket == <<object, parts>>
history == <<issued, moves, raced>>
counters == <<attempts, recoveries, deaths>>
vars == <<status, asset, bucket, transcode, client, requests, history, counters>>

ISSUABLE == {"draft", "upload_failed"}

\* findOriginal orders by age; with one original there is nothing to order.
FindOriginal == {k \in Key : asset[k] \in {"pending", "ready"}}

-------------------------------------------------------------------------------
(* The client: one attempt at a time per screen *)

Ended(cl, phase) == [cl EXCEPT !.phase = phase, !.step = "none"]

Request(cl, c, step) ==
  [step |-> step, by |-> c, attempt |-> cl.attempt, key |-> cl.key, multi |-> cl.multi,
   pc |-> "load", seen |-> 0]

Send(c, cl, open) ==
  /\ client' = [client EXCEPT ![c] = cl]
  /\ requests' = open \union {Request(cl, c, cl.step)}

\* What the client does with an answer.  An error of the issue ends the attempt
\* (the server was not moved); one of the completion is followed by the
\* notification, whose own answer does not matter.
Continue(c, ok, open) ==
  LET cl == client[c]
  IN  \/ /\ cl.step = "issue"
         /\ client' = [client EXCEPT ![c] = IF ok THEN [cl EXCEPT !.step = "put"]
                                                  ELSE Ended(cl, "failed")]
         /\ requests' = open
      \/ /\ cl.step = "complete" /\ ok
         /\ client' = [client EXCEPT ![c] = Ended(cl, "done")]
         /\ requests' = open
      \/ /\ cl.step = "complete" /\ ~ ok
         /\ Send(c, [cl EXCEPT !.step = "notify", !.outcome = "failed"], open)
      \/ /\ cl.step = "notify"
         /\ client' = [client EXCEPT ![c] = Ended(cl, cl.outcome)]
         /\ requests' = open

\* runUpload: on entering the screen, or by the retry button.
Start(c) ==
  /\ client[c].phase # "running" /\ client[c].phase # "done"
  /\ attempts < MaxAttempts
  /\ attempts' = attempts + 1
  /\ \E k \in Key :
       Send(c, [phase |-> "running", step |-> "issue", key |-> k, multi |-> k \in Large,
                attempt |-> attempts', outcome |-> "failed"], requests)
  /\ UNCHANGED <<status, asset, bucket, transcode, history, recoveries, deaths>>

\* putWithXhr or uploadPartsConcurrently went through.
Put(c) ==
  LET cl == client[c]
  IN  /\ cl.step = "put"
      /\ object' = IF cl.multi THEN object ELSE [object EXCEPT ![cl.key] = cl.attempt]
      /\ parts' = IF cl.multi THEN parts \union {cl.attempt} ELSE parts
      /\ Send(c, [cl EXCEPT !.step = "complete"], requests)
      /\ UNCHANGED <<status, asset, transcode, history, counters>>

\* It broke off or was cancelled; a single put may have arrived all the same.
PutFails(c) ==
  LET cl == client[c]
  IN  /\ cl.step = "put"
      /\ \E outcome \in {"failed", "aborted"} :
           Send(c, [cl EXCEPT !.step = "notify", !.outcome = outcome], requests)
      /\ \/ UNCHANGED object
         \/ ~ cl.multi /\ object' = [object EXCEPT ![cl.key] = cl.attempt]
      /\ UNCHANGED <<status, asset, parts, transcode, history, counters>>

\* The connection breaks while the client waits; the request may be running.
GiveUp(c) ==
  /\ client[c].step \in {"issue", "complete", "notify"}
  /\ Continue(c, FALSE, requests)
  /\ UNCHANGED <<status, asset, bucket, transcode, history, counters>>

-------------------------------------------------------------------------------
(* The handlers *)

IsIssue(r) == r.step = "issue"
IsAbort(r) == r.step = "notify" /\ r.multi
IsComplete(r) == r.step = "complete" \/ (r.step = "notify" /\ ~ r.multi)

\* The request goes on to its next await, with what it has seen ...
Goto(r, pc) ==
  /\ requests' = (requests \ {r}) \union {[r EXCEPT !.pc = pc,
                    !.seen = IF r.pc = "load" /\ ~ IsAbort(r) THEN moves ELSE @]}
  /\ UNCHANGED client

\* ... or is answered, and its client may still be waiting.
Reply(r, ok) ==
  IF client[r.by].step = r.step /\ client[r.by].attempt = r.attempt
    THEN Continue(r.by, ok, requests \ {r})
    ELSE requests' = requests \ {r} /\ UNCHANGED client

\* Every handler loads the content first and judges its status.
Load(r) ==
  /\ r.pc = "load"
  /\ \/ IsIssue(r) /\ IF status \in ISSUABLE THEN Goto(r, "upsert") ELSE Reply(r, FALSE)
     \/ /\ IsComplete(r) \/ IsAbort(r)
        /\ IF status = "uploading" THEN Goto(r, "find") ELSE Reply(r, FALSE)
  /\ UNCHANGED <<status, asset, bucket, transcode, history, counters>>

\* The content has been recovered, or issued again, since the request loaded
\* it: the status may be the same, the upload is another one.  Or it is an
\* issue beside one for another key.
Races(r) ==
  \/ raced
  \/ r.seen # moves
  \/ IsIssue(r) /\ \E q \in requests : IsIssue(q) /\ q.key # r.key /\ q.pc # "load"

\* createOriginalPending: the row of this key starts over ...
UpsertOriginal(r) ==
  /\ r.pc = "upsert"
  /\ asset' = [asset EXCEPT ![r.key] = "pending"]
  /\ raced' = Races(r)
  /\ Goto(r, "sweep")
  /\ UNCHANGED <<status, bucket, transcode, issued, moves, counters>>

\* ... and the rows of other extensions go.
SweepOriginals(r) ==
  /\ r.pc = "sweep"
  /\ asset' = [k \in Key |-> IF k = r.key THEN asset[k] ELSE "none"]
  /\ raced' = Races(r)
  /\ Goto(r, "begin")
  /\ UNCHANGED <<status, bucket, transcode, issued, moves, counters>>

\* beginUpload; the urls are signed without leaving the process.
BeginUpload(r) ==
  /\ r.pc = "begin"
  /\ IF status \in ISSUABLE
       THEN /\ status' = "uploading" /\ moves' = moves + 1
            /\ issued' = r.key /\ raced' = Races(r)
            /\ Reply(r, TRUE)
       ELSE UNCHANGED <<status, history>> /\ Reply(r, FALSE)
  /\ UNCHANGED <<asset, bucket, transcode, counters>>

\* No original, or another key than the issued one: the content rolls back.
CheckOriginal(r) ==
  /\ r.pc = "find"
  /\ \/ FindOriginal = {} /\ Goto(r, "rollback")
     \/ \E k \in FindOriginal :
          IF k # r.key THEN Goto(r, "rollback") ELSE Goto(r, IF r.multi THEN "store" ELSE "head")
  /\ UNCHANGED <<status, asset, bucket, transcode, history, counters>>

\* The bucket assembles the parts, or refuses.
CompleteMultipart(r) ==
  /\ r.pc = "store" /\ IsComplete(r)
  /\ \/ /\ r.attempt \in parts
        /\ object' = [object EXCEPT ![r.key] = r.attempt]
        /\ parts' = parts \ {r.attempt}
        /\ Goto(r, "head")
     \/ Goto(r, "markFailed") /\ UNCHANGED bucket
  /\ UNCHANGED <<status, asset, transcode, history, counters>>

\* abortMultipartUpload: a best effort, then the content rolls back.
AbortMultipart(r) ==
  /\ r.pc = "store" /\ IsAbort(r)
  /\ parts' \in {parts, parts \ {r.attempt}}
  /\ Goto(r, "rollback")
  /\ UNCHANGED <<status, asset, object, transcode, history, counters>>

\* The faulty version for the mutant checks: any object will do.
HeadObject_Trusts(r) ==
  r.pc = "head" /\ Goto(r, "ready")
  /\ UNCHANGED <<status, asset, bucket, transcode, history, counters>>

\* The faulty version for the mutant checks: a refusal leaves the content as it is.
HeadObject_JustRefuses(r) ==
  /\ r.pc = "head"
  /\ IF object[r.key] = 0 THEN Reply(r, FALSE) ELSE Goto(r, "ready")
  /\ UNCHANGED <<status, asset, bucket, transcode, history, counters>>

\* The object must be in the bucket.
HeadObject(r) ==
  /\ r.pc = "head"
  /\ Goto(r, IF object[r.key] = 0 THEN "markFailed" ELSE "ready")
  /\ UNCHANGED <<status, asset, bucket, transcode, history, counters>>

\* failUploadTx, with markFailed or alone: a conflict rolls both back.
FailUpload(r) ==
  /\ r.pc \in {"rollback", "markFailed"}
  /\ IF status = "uploading"
       THEN /\ status' = "upload_failed" /\ moves' = moves + 1
            /\ asset' = IF r.pc = "markFailed" /\ asset[r.key] # "none"
                          THEN [asset EXCEPT ![r.key] = "failed"] ELSE asset
       ELSE UNCHANGED <<status, asset, moves>>
  /\ Reply(r, IsAbort(r) /\ status = "uploading")
  /\ UNCHANGED <<bucket, transcode, issued, raced, counters>>

\* markReady throws when a concurrent issue swept the row away.
MarkReady(r) ==
  /\ r.pc = "ready"
  /\ IF asset[r.key] = "none"
       THEN UNCHANGED asset /\ Reply(r, FALSE)
       ELSE asset' = [asset EXCEPT ![r.key] = "ready"] /\ Goto(r, "hop")
  /\ UNCHANGED <<status, bucket, transcode, history, counters>>

CompleteUpload(r) ==
  /\ r.pc = "hop"
  /\ IF status = "uploading"
       THEN /\ status' = "uploaded" /\ moves' = moves + 1
            /\ raced' = Races(r)
            /\ Goto(r, "enqueue")
       ELSE UNCHANGED <<status, moves, raced>> /\ Reply(r, FALSE)
  /\ UNCHANGED <<asset, bucket, transcode, issued, counters>>

\* enqueueTranscode looks the original up again.
EnqueueTranscode(r) ==
  /\ r.pc = "enqueue"
  /\ \/ \E k \in FindOriginal : transcode' = transcode \union {k} /\ Reply(r, TRUE)
     \/ FindOriginal = {} /\ UNCHANGED transcode /\ Reply(r, FALSE)
  /\ UNCHANGED <<status, asset, bucket, history, counters>>

\* recoverStalledUpload: the threshold has passed, but the upload may go on.
Recover(c) ==
  /\ status = "uploading" /\ recoveries < MaxRecoveries
  /\ recoveries' = recoveries + 1
  /\ requests' = requests \union
       {[Request(client[c], c, "recover") EXCEPT !.attempt = 0, !.pc = "rollback"]}
  /\ UNCHANGED <<status, asset, bucket, transcode, client, history, attempts, deaths>>

\* A request never arrives, or dies with the process that works on it.
Die(r) ==
  /\ deaths < MaxDeaths
  /\ deaths' = deaths + 1
  /\ requests' = requests \ {r}
  /\ UNCHANGED <<status, asset, bucket, transcode, client, history, attempts, recoveries>>

-------------------------------------------------------------------------------
Init ==
  /\ status = "draft"
  /\ asset = [k \in Key |-> "none"]
  /\ object = [k \in Key |-> 0] /\ parts = {}
  /\ transcode = {}
  /\ client = [c \in Client |-> [phase |-> "idle", step |-> "none", key |-> CHOOSE k \in Key : TRUE,
                                 multi |-> FALSE, attempt |-> 0, outcome |-> "failed"]]
  /\ requests = {}
  /\ issued = CHOOSE k \in Key : TRUE
  /\ moves = 0 /\ raced = FALSE
  /\ attempts = 0 /\ recoveries = 0 /\ deaths = 0

Handler ==
  \E r \in requests :
    \/ Load(r) \/ UpsertOriginal(r) \/ SweepOriginals(r) \/ BeginUpload(r)
    \/ CheckOriginal(r) \/ CompleteMultipart(r) \/ AbortMultipart(r) \/ HeadObject(r)
    \/ FailUpload(r) \/ MarkReady(r) \/ CompleteUpload(r) \/ EnqueueTranscode(r)

\* The client hears from the network that its request is gone.
ConnectionLost ==
  \E c \in Client :
    /\ \A r \in requests : r.by # c \/ r.step # client[c].step
    /\ GiveUp(c)

Transfer == \E c \in Client : Put(c) \/ PutFails(c)

Next ==
  \/ Handler \/ Transfer
  \/ \E c \in Client : Start(c) \/ GiveUp(c) \/ Recover(c)
  \/ \E r \in requests : Die(r)

Spec == Init /\ [][Next]_vars

\* The api works on what it received, transfers end one way or the other and
\* broken connections are noticed; nobody has to retry or recover.
FairSpec == Spec /\ WF_vars(Handler) /\ WF_vars(Transfer) /\ WF_vars(ConnectionLost)

-------------------------------------------------------------------------------
(* Properties *)

TypeOK ==
  /\ status \in {"draft", "uploading", "upload_failed", "uploaded"}
  /\ asset \in [Key -> {"none", "pending", "ready", "failed"}]
  /\ object \in [Key -> 0 .. MaxAttempts] /\ parts \subseteq 1 .. MaxAttempts
  /\ transcode \subseteq Key /\ issued \in Key /\ raced \in BOOLEAN
  /\ \A r \in requests : /\ r.by \in Client /\ r.key \in Key /\ r.attempt \in 0 .. MaxAttempts
                          /\ r.pc = "store" => r.multi

\* While a content is uploading, the original it was issued for can be found,
\* so that its completion can succeed: also after earlier attempts with this
\* key failed, were given up or are still running (createOriginalPending).
IssuedIsFindable == status = "uploading" /\ ~ raced => FindOriginal = {issued}

\* What is transcoded was uploaded: the object is there when the job is added,
\* whatever requests of other attempts do at the same time (completeUpload).
TranscodeHasObject == ~ raced => \A k \in transcode : object[k] # 0

\* An upload the reporter is told is complete is on its way: the content was
\* moved and its transcode was added before the answer.
DoneIsUploaded ==
  (\E c \in Client : client[c].phase = "done") => status = "uploaded" /\ transcode # {}

\* However a completion or an abort of the issued key ends by itself, it does
\* not leave the content uploading, where nothing but the stall recovery could
\* free it; also when it overlaps with a recovery and the next attempt.
CompletionNeverStrands ==
  [][\A r \in requests :
       (r.step \in {"complete", "notify"} /\ r.key = issued /\ ~ raced /\ deaths' = deaths
          /\ {q \in requests' : q.step = r.step /\ q.attempt = r.attempt} = {})
         => status' # "uploading"]_vars

\* Every attempt ends: the screen shows that it is done, failed or cancelled.
AttemptsEnd == \A c \in Client : client[c].phase = "running" ~> client[c].phase # "running"

\* An uploaded content gets its transcode, if no request dies on the way.
UploadedIsTranscoded ==
  status = "uploaded" ~> (transcode # {} \/ deaths > 0 \/ raced)
===============================================================================
