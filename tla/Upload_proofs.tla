----------------------------- MODULE Upload_proofs -----------------------------
(***************************************************************************)
(* For any set of screens, keys and residents and any bounds: the safety   *)
(* properties of the uploads of a content and of a resident link.          *)
(***************************************************************************)
EXTENDS MC_Upload, FiniteSetTheorems, TLAPS

-------------------------------------------------------------------------------
(* The uploads of a content: the invariant *)

Pc == {"load", "upsert", "sweep", "begin", "find", "store", "head", "ready", "hop", "enqueue",
       "rollback", "markFailed"}

RequestSet ==
  [step : {"issue", "complete", "notify", "recover"}, by : Client, attempt : 0 .. MaxAttempts,
   key : Key, multi : BOOLEAN, pc : Pc, seen : Nat]

ClientSet ==
  [phase : {"idle", "running", "done", "failed", "aborted"},
   step : {"none", "issue", "put", "complete", "notify"}, key : Key, multi : BOOLEAN,
   attempt : 0 .. MaxAttempts, outcome : {"failed", "aborted"}]

\* The awaits of each handler (issueUploadUrl, completeUpload, abortMultipartUpload,
\* recoverStalledUpload).
OnItsPath(r) ==
  /\ IsIssue(r) => r.pc \in {"load", "upsert", "sweep", "begin"}
  /\ IsAbort(r) => r.pc \in {"load", "find", "store", "rollback"}
  /\ IsComplete(r) => r.pc \in Pc \ {"upsert", "sweep", "begin"}
  /\ r.step = "recover" => r.pc = "rollback"
  /\ r.pc = "store" => r.multi

WellTyped ==
  /\ status \in {"draft", "uploading", "upload_failed", "uploaded"}
  /\ asset \in [Key -> {"none", "pending", "ready", "failed"}]
  /\ object \in [Key -> 0 .. MaxAttempts] /\ parts \subseteq 1 .. MaxAttempts
  /\ transcode \subseteq Key /\ issued \in Key /\ raced \in BOOLEAN
  /\ moves \in Nat /\ attempts \in 0 .. MaxAttempts /\ recoveries \in Nat /\ deaths \in Nat
  /\ client \in [Client -> ClientSet]
  /\ requests \subseteq RequestSet

\* Only attempts that were started are at work, and no request has seen the
\* content in a later state than it is.
AttemptsFit ==
  /\ \A c \in Client : client[c].step # "none" => client[c].attempt # 0
  /\ \A r \in requests :
       OnItsPath(r) /\ r.seen <= moves /\ (r.step # "recover" => r.attempt # 0)

Recorded == {"pending", "ready"}

\* An issue that nobody has overtaken finds the content as it loaded it; its row is there
\* from the upsert on, and alone from the sweep on.
IssueFits(r) ==
  IsIssue(r) /\ r.pc # "load" /\ r.seen = moves =>
    /\ status \in ISSUABLE
    /\ ~ raced /\ r.pc \in {"sweep", "begin"} => asset[r.key] \in Recorded
    /\ ~ raced /\ r.pc = "begin" => \A k \in Key \ {r.key} : asset[k] = "none"

\* So does a completion that nobody has overtaken; it is of the issued key and has seen an
\* object.
CompletionFits(r) ==
  IsComplete(r) =>
    /\ r.pc \notin {"load", "enqueue"} /\ r.seen = moves => status = "uploading"
    /\ ~ raced /\ r.pc \in {"store", "head", "ready", "hop"} /\ r.seen = moves => r.key = issued
    /\ r.pc \in {"ready", "hop"} => object[r.key] # 0
    /\ r.pc = "enqueue" => status = "uploaded"

RequestsFit == \A r \in requests : IssueFits(r) /\ CompletionFits(r)

\* The issued original is the only one, and once the content is uploaded it is in the bucket.
OriginalFits ==
  ~ raced =>
    /\ status \in {"uploading", "uploaded"} =>
         asset[issued] \in Recorded /\ \A k \in Key \ {issued} : asset[k] = "none"
    /\ status = "uploaded" => object[issued] # 0

UploadInv ==
  /\ WellTyped /\ AttemptsFit /\ RequestsFit /\ OriginalFits
  /\ (transcode # {} => status = "uploaded") /\ TranscodeHasObject /\ DoneIsUploaded

-------------------------------------------------------------------------------
(* What the helpers do *)

\* A request that goes on keeps everything but its place and what it has seen (Goto).
LEMMA Onwards ==
  ASSUME WellTyped, AttemptsFit, NEW r \in requests, NEW pc \in Pc, Goto(r, pc)
  PROVE  \E n \in RequestSet :
           /\ requests' = (requests \ {r}) \union {n} /\ client' = client
           /\ n.step = r.step /\ n.by = r.by /\ n.attempt = r.attempt
           /\ n.key = r.key /\ n.multi = r.multi /\ n.pc = pc
           /\ n.seen = IF r.pc = "load" /\ ~ IsAbort(r) THEN moves ELSE r.seen
           /\ n.seen <= moves
<1> DEFINE n == [r EXCEPT !.pc = pc, !.seen = IF r.pc = "load" /\ ~ IsAbort(r) THEN moves ELSE @]
<1>1. r \in RequestSet /\ moves \in Nat /\ r.seen <= moves
  BY DEF WellTyped, AttemptsFit
<1>2. n \in RequestSet
  BY <1>1 DEF RequestSet
<1>3. /\ n.step = r.step /\ n.by = r.by /\ n.attempt = r.attempt
      /\ n.key = r.key /\ n.multi = r.multi /\ n.pc = pc
      /\ n.seen = IF r.pc = "load" /\ ~ IsAbort(r) THEN moves ELSE r.seen
  BY <1>1 DEF RequestSet
<1>4. n.seen <= moves
  BY <1>1, <1>3 DEF RequestSet
<1>5. requests' = (requests \ {r}) \union {n} /\ client' = client
  BY DEF Goto
<1> QED
  BY <1>2, <1>3, <1>4, <1>5

\* A client that hears an answer asks for nothing but to notify the server, and is done only
\* when its completion was answered well (Continue).
LEMMA Continues ==
  ASSUME WellTyped, AttemptsFit, NEW c \in Client, NEW ok \in BOOLEAN,
         NEW open \in SUBSET requests, Continue(c, ok, open)
  PROVE  /\ client' \in [Client -> ClientSet]
         /\ \A d \in Client : client'[d].step # "none" => client'[d].attempt # 0
         /\ \A d \in Client : client'[d].phase = "done" =>
              client[d].phase = "done" \/ (ok /\ client[c].step = "complete")
         /\ \A q \in requests' :
              \/ q \in requests
              \/ /\ q \in RequestSet /\ q.step = "notify" /\ q.pc = "load" /\ q.seen = 0
                 /\ q.attempt # 0
<1> DEFINE cl == client[c]
<1>1. /\ client \in [Client -> ClientSet] /\ cl \in ClientSet
      /\ \A d \in Client : client[d].step # "none" => client[d].attempt # 0
  BY DEF WellTyped, AttemptsFit
<1>2. ASSUME NEW new \in ClientSet, client' = [client EXCEPT ![c] = new], new.attempt = cl.attempt,
             cl.step # "none",
             new.phase = "done" => cl.phase = "done" \/ (ok /\ cl.step = "complete")
      PROVE  /\ client' \in [Client -> ClientSet]
             /\ \A d \in Client : client'[d].step # "none" => client'[d].attempt # 0
             /\ \A d \in Client : client'[d].phase = "done" =>
                  client[d].phase = "done" \/ (ok /\ client[c].step = "complete")
  BY <1>1, <1>2
<1>3. CASE /\ cl.step = "issue"
           /\ client' = [client EXCEPT ![c] = IF ok THEN [cl EXCEPT !.step = "put"]
                                                     ELSE Ended(cl, "failed")]
           /\ requests' = open
  <2> DEFINE new == IF ok THEN [cl EXCEPT !.step = "put"] ELSE Ended(cl, "failed")
  <2>1. /\ new \in ClientSet /\ new.attempt = cl.attempt
        /\ new.phase = "done" => cl.phase = "done" \/ (ok /\ cl.step = "complete")
    BY <1>1 DEF ClientSet, Ended
  <2> QED
    BY <1>2, <1>3, <2>1
<1>4. CASE /\ cl.step = "complete" /\ ok
           /\ client' = [client EXCEPT ![c] = Ended(cl, "done")]
           /\ requests' = open
  <2> DEFINE new == Ended(cl, "done")
  <2>1. new \in ClientSet /\ new.attempt = cl.attempt
    BY <1>1 DEF ClientSet, Ended
  <2> QED
    BY <1>2, <1>4, <2>1
<1>5. CASE /\ cl.step = "complete" /\ ~ ok
           /\ Send(c, [cl EXCEPT !.step = "notify", !.outcome = "failed"], open)
  <2> DEFINE new == [cl EXCEPT !.step = "notify", !.outcome = "failed"]
  <2>1. /\ new \in ClientSet /\ new.attempt = cl.attempt /\ new.step = "notify"
        /\ new.phase = cl.phase
    BY <1>1 DEF ClientSet
  <2>2. client' = [client EXCEPT ![c] = new] /\ requests' = open \union {Request(new, c, new.step)}
    BY <1>5 DEF Send
  <2> HIDE DEF new
  <2> DEFINE q == Request(new, c, new.step)
  <2>3. /\ q \in RequestSet /\ q.step = "notify" /\ q.pc = "load" /\ q.seen = 0
        /\ q.attempt = new.attempt
    BY <2>1 DEF Request, RequestSet, ClientSet, Pc
  <2>4. q.attempt # 0
    BY <1>1, <1>5, <2>1, <2>3
  <2>5. requests' = open \union {q}
    BY <2>2
  <2> HIDE DEF q
  <2>6. /\ client' \in [Client -> ClientSet]
        /\ \A d \in Client : client'[d].step # "none" => client'[d].attempt # 0
        /\ \A d \in Client : client'[d].phase = "done" =>
             client[d].phase = "done" \/ (ok /\ client[c].step = "complete")
    BY <1>2, <1>5, <2>1, <2>2
  <2> QED
    BY <2>3, <2>4, <2>5, <2>6
<1>6. CASE /\ cl.step = "notify"
           /\ client' = [client EXCEPT ![c] = Ended(cl, cl.outcome)]
           /\ requests' = open
  <2> DEFINE new == Ended(cl, cl.outcome)
  <2>1. /\ new \in ClientSet /\ new.attempt = cl.attempt
        /\ new.phase # "done"
    BY <1>1 DEF ClientSet, Ended
  <2> QED
    BY <1>2, <1>6, <2>1
<1> QED
  BY <1>3, <1>4, <1>5, <1>6 DEF Continue

\* The same of an answered request (Reply).
LEMMA Replies ==
  ASSUME WellTyped, AttemptsFit, NEW r \in requests, NEW ok \in BOOLEAN, Reply(r, ok)
  PROVE  /\ client' \in [Client -> ClientSet]
         /\ \A d \in Client : client'[d].step # "none" => client'[d].attempt # 0
         /\ \A d \in Client : client'[d].phase = "done" =>
              client[d].phase = "done" \/ (ok /\ r.step = "complete")
         /\ \A q \in requests' :
              \/ q \in requests
              \/ /\ q \in RequestSet /\ q.step = "notify" /\ q.pc = "load" /\ q.seen = 0
                 /\ q.attempt # 0
<1>1. r.by \in Client
  BY DEF WellTyped, RequestSet
<1>2. CASE client[r.by].step = r.step /\ client[r.by].attempt = r.attempt
  BY <1>1, <1>2, Continues DEF Reply
<1>3. CASE ~ (client[r.by].step = r.step /\ client[r.by].attempt = r.attempt)
  <2>1. requests' = requests \ {r} /\ client' = client
    BY <1>3 DEF Reply
  <2> QED
    BY <2>1 DEF WellTyped, AttemptsFit
<1> QED
  BY <1>2, <1>3

\* A request is on the path of its handler (the handlers' order of awaits).
LEMMA Paths ==
  ASSUME WellTyped, AttemptsFit, NEW r \in requests
  PROVE  /\ r \in RequestSet /\ OnItsPath(r) /\ r.seen <= moves
         /\ r.pc \in {"upsert", "sweep", "begin"} => IsIssue(r)
         /\ r.pc \in {"head", "ready", "hop", "enqueue", "markFailed"} => IsComplete(r)
         /\ r.pc \in {"find", "store"} => IsComplete(r) \/ IsAbort(r)
         /\ IsComplete(r) \/ IsAbort(r) \/ IsIssue(r) => r.attempt \in 1 .. MaxAttempts
<1>1. r \in RequestSet /\ OnItsPath(r) /\ r.seen <= moves /\ (r.step # "recover" => r.attempt # 0)
  BY DEF WellTyped, AttemptsFit
<1>2. IsIssue(r) \/ IsAbort(r) \/ IsComplete(r) \/ r.step = "recover"
  BY <1>1 DEF RequestSet, IsIssue, IsAbort, IsComplete
<1>3. r.attempt # 0 => r.attempt \in 1 .. MaxAttempts
  BY <1>1, UploadAssumption DEF RequestSet
<1> QED
  BY <1>1, <1>2, <1>3 DEF OnItsPath, Pc, IsIssue, IsAbort, IsComplete

\* A request that has only been sent holds nothing that could be out of date (Request).
LEMMA FreshFits ==
  ASSUME NEW q, q.pc = "load", q.seen = 0, q.step \in {"issue", "complete", "notify"},
         moves \in Nat, moves' \in Nat
  PROVE  /\ OnItsPath(q) /\ q.seen <= moves /\ q.seen <= moves'
         /\ IssueFits(q) /\ CompletionFits(q)
         /\ IssueFits(q)' /\ CompletionFits(q)'
BY DEF OnItsPath, IssueFits, CompletionFits, IsIssue, IsAbort, IsComplete, Pc

\* What it means that nobody has interfered (Races).
LEMMA Unraced ==
  ASSUME WellTyped, NEW r \in requests, raced' = Races(r)
  PROVE  /\ raced' \in BOOLEAN
         /\ ~ raced' => ~ raced /\ r.seen = moves
         /\ ~ raced' /\ IsIssue(r) =>
              \A q \in requests : IsIssue(q) /\ q.key # r.key => q.pc = "load"
BY DEF Races, WellTyped

\* A step that leaves the rows and the history alone, removes no object, and whose new
\* requests fit, keeps the invariant.
LEMMA Quiet ==
  ASSUME UploadInv,
         UNCHANGED <<status, asset, transcode, issued, moves, raced>>,
         object' \in [Key -> 0 .. MaxAttempts],
         \A k \in Key : object[k] # 0 => object'[k] # 0,
         parts' \subseteq 1 .. MaxAttempts,
         attempts' \in 0 .. MaxAttempts, recoveries' \in Nat, deaths' \in Nat,
         client' \in [Client -> ClientSet],
         \A c \in Client : client'[c].step # "none" => client'[c].attempt # 0,
         \A c \in Client : client'[c].phase = "done" => client[c].phase = "done",
         \A q \in requests' :
           \/ q \in requests
           \/ /\ q \in RequestSet /\ OnItsPath(q) /\ q.seen <= moves
              /\ q.step # "recover" => q.attempt # 0
              /\ IssueFits(q) /\ CompletionFits(q)
  PROVE  UploadInv'
<1>1. WellTyped'
  BY DEF UploadInv, WellTyped
<1>2. AttemptsFit'
  BY DEF UploadInv, AttemptsFit
<1>3. \A q \in RequestSet :
        (IssueFits(q) => IssueFits(q)') /\ (CompletionFits(q) => CompletionFits(q)')
  BY DEF IssueFits, CompletionFits, RequestSet
<1>4. RequestsFit'
  BY <1>3 DEF UploadInv, RequestsFit, WellTyped
<1>5. OriginalFits' /\ TranscodeHasObject'
  BY DEF UploadInv, OriginalFits, TranscodeHasObject, WellTyped
<1>6. DoneIsUploaded'
  BY DEF UploadInv, DoneIsUploaded
<1> QED
  BY <1>1, <1>2, <1>4, <1>5, <1>6 DEF UploadInv

\* An answer that leaves everything else alone keeps it.
LEMMA QuietReply ==
  ASSUME UploadInv, NEW r \in requests, Reply(r, FALSE),
         UNCHANGED <<status, asset, bucket, transcode, history, counters>>
  PROVE  UploadInv'
<1>1. WellTyped /\ AttemptsFit
  BY DEF UploadInv
<1>2. /\ client' \in [Client -> ClientSet]
      /\ \A d \in Client : client'[d].step # "none" => client'[d].attempt # 0
      /\ \A d \in Client : client'[d].phase = "done" => client[d].phase = "done"
      /\ \A q \in requests' :
           \/ q \in requests
           \/ /\ q \in RequestSet /\ q.step = "notify" /\ q.pc = "load" /\ q.seen = 0
              /\ q.attempt # 0
  BY <1>1, Replies
<1>3. moves \in Nat /\ moves' \in Nat
  BY <1>1 DEF WellTyped, history
<1>4. \A q \in requests' :
        \/ q \in requests
        \/ /\ q \in RequestSet /\ OnItsPath(q) /\ q.seen <= moves
           /\ q.step # "recover" => q.attempt # 0
           /\ IssueFits(q) /\ CompletionFits(q)
  BY <1>2, <1>3, FreshFits
<1> QED
  BY <1>1, <1>2, <1>4, Quiet DEF WellTyped, bucket, history, counters

-------------------------------------------------------------------------------
(* The client *)

\* A new attempt is one more of the attempts (runUpload).
LEMMA StartKeeps == ASSUME UploadInv, NEW c \in Client, Start(c) PROVE UploadInv'
<1>1. WellTyped /\ AttemptsFit
  BY DEF UploadInv
<1>2. /\ attempts' \in 1 .. MaxAttempts /\ moves \in Nat /\ moves' \in Nat
      /\ client \in [Client -> ClientSet] /\ client[c].phase # "done"
  BY <1>1, UploadAssumption DEF WellTyped, Start, history
<1>3. PICK k \in Key :
        Send(c, [phase |-> "running", step |-> "issue", key |-> k, multi |-> k \in Large,
                 attempt |-> attempts', outcome |-> "failed"], requests)
  BY DEF Start
<1>4. PICK cl \in ClientSet, q \in RequestSet :
        /\ cl.step = "issue" /\ cl.phase = "running" /\ cl.attempt # 0
        /\ client' = [client EXCEPT ![c] = cl]
        /\ requests' = requests \union {q}
        /\ q.step = "issue" /\ q.pc = "load" /\ q.seen = 0 /\ q.attempt # 0
  <2> DEFINE cl == [phase |-> "running", step |-> "issue", key |-> k, multi |-> k \in Large,
                    attempt |-> attempts', outcome |-> "failed"]
             q == Request(cl, c, cl.step)
  <2>1. (k \in Large) \in BOOLEAN
    OBVIOUS
  <2>2. /\ cl \in ClientSet /\ cl.step = "issue" /\ cl.phase = "running" /\ cl.attempt # 0
    BY <1>2, <2>1 DEF ClientSet
  <2>3. client' = [client EXCEPT ![c] = cl] /\ requests' = requests \union {q}
    BY <1>3 DEF Send
  <2> HIDE DEF cl
  <2>4. /\ q \in RequestSet /\ q.step = "issue" /\ q.pc = "load" /\ q.seen = 0
        /\ q.attempt # 0
    BY <2>2 DEF Request, RequestSet, ClientSet, Pc
  <2> HIDE DEF q
  <2> QED
    BY <2>2, <2>3, <2>4
<1>5. /\ client' \in [Client -> ClientSet]
      /\ \A d \in Client : client'[d].step # "none" => client'[d].attempt # 0
      /\ \A d \in Client : client'[d].phase = "done" => client[d].phase = "done"
  BY <1>1, <1>2, <1>4 DEF AttemptsFit
<1>6. OnItsPath(q) /\ q.seen <= moves /\ IssueFits(q) /\ CompletionFits(q)
  BY <1>2, <1>4, FreshFits
<1>7. /\ UNCHANGED <<status, asset, object, transcode, issued, moves, raced, parts>>
      /\ object' \in [Key -> 0 .. MaxAttempts]
      /\ attempts' \in 0 .. MaxAttempts /\ recoveries' \in Nat /\ deaths' \in Nat
  BY <1>1, <1>2 DEF Start, bucket, history, WellTyped
<1> QED
  BY <1>1, <1>4, <1>5, <1>6, <1>7, Quiet DEF WellTyped

\* What a client sends after a transfer fits.
LEMMA Sends ==
  ASSUME UploadInv, NEW c \in Client, client[c].step # "none", NEW cl \in ClientSet,
         cl.step \in {"complete", "notify"},
         cl.phase = client[c].phase, cl.attempt = client[c].attempt, Send(c, cl, requests),
         moves' = moves
  PROVE  /\ client' \in [Client -> ClientSet]
         /\ \A d \in Client : client'[d].step # "none" => client'[d].attempt # 0
         /\ \A d \in Client : client'[d].phase = "done" => client[d].phase = "done"
         /\ \A q \in requests' :
              \/ q \in requests
              \/ /\ q \in RequestSet /\ OnItsPath(q) /\ q.seen <= moves
                 /\ q.step # "recover" => q.attempt # 0
                 /\ IssueFits(q) /\ CompletionFits(q)
<1>1. /\ client \in [Client -> ClientSet] /\ moves \in Nat
      /\ \A d \in Client : client[d].step # "none" => client[d].attempt # 0
  BY DEF UploadInv, WellTyped, AttemptsFit
<1> DEFINE q == Request(cl, c, cl.step)
<1>2. client' = [client EXCEPT ![c] = cl] /\ requests' = requests \union {q}
  BY DEF Send
<1>3. cl.attempt # 0
  BY <1>1
<1>4. /\ q \in RequestSet /\ q.step \in {"complete", "notify"} /\ q.pc = "load" /\ q.seen = 0
      /\ q.attempt # 0
  BY <1>3 DEF Request, RequestSet, ClientSet, Pc
<1> HIDE DEF q
<1>5. OnItsPath(q) /\ q.seen <= moves /\ IssueFits(q) /\ CompletionFits(q)
  BY <1>1, <1>4, FreshFits
<1>6. \A p \in requests' : p \in requests \/ p = q
  BY <1>2
<1>7. /\ client' \in [Client -> ClientSet]
      /\ \A d \in Client : client'[d].step # "none" => client'[d].attempt # 0
      /\ \A d \in Client : client'[d].phase = "done" => client[d].phase = "done"
  BY <1>1, <1>2, <1>3
<1> QED
  BY <1>4, <1>5, <1>6, <1>7

\* A put leaves an object or the parts of its attempt (putWithXhr, uploadPartsConcurrently).
LEMMA PutKeeps == ASSUME UploadInv, NEW c \in Client, Put(c) PROVE UploadInv'
<1>1. WellTyped /\ AttemptsFit
  BY DEF UploadInv
<1> DEFINE cl == client[c]
           new == [cl EXCEPT !.step = "complete"]
<1>2. /\ cl \in ClientSet /\ cl.step = "put" /\ cl.attempt \in 1 .. MaxAttempts
      /\ UNCHANGED <<status, asset, transcode, issued, moves, raced, attempts, recoveries, deaths>>
  BY <1>1, UploadAssumption DEF WellTyped, AttemptsFit, ClientSet, Put, history, counters
<1>3. /\ new \in ClientSet /\ new.step = "complete" /\ new.phase = cl.phase
      /\ new.attempt = cl.attempt /\ Send(c, new, requests)
  BY <1>2 DEF ClientSet, Put
<1>4. /\ object' \in [Key -> 0 .. MaxAttempts] /\ parts' \subseteq 1 .. MaxAttempts
      /\ \A k \in Key : object[k] # 0 => object'[k] # 0
  BY <1>1, <1>2 DEF Put, WellTyped, ClientSet
<1>5. /\ client' \in [Client -> ClientSet]
      /\ \A d \in Client : client'[d].step # "none" => client'[d].attempt # 0
      /\ \A d \in Client : client'[d].phase = "done" => client[d].phase = "done"
      /\ \A q \in requests' :
           \/ q \in requests
           \/ /\ q \in RequestSet /\ OnItsPath(q) /\ q.seen <= moves
              /\ q.step # "recover" => q.attempt # 0
              /\ IssueFits(q) /\ CompletionFits(q)
  <2> HIDE DEF new
  <2> QED
    BY <1>2, <1>3, Sends
<1> QED
  BY <1>1, <1>2, <1>4, <1>5, Quiet DEF WellTyped

\* A put that breaks off, too (notifyUploadFailed, abort).
LEMMA PutFailsKeeps == ASSUME UploadInv, NEW c \in Client, PutFails(c) PROVE UploadInv'
<1>1. WellTyped /\ AttemptsFit
  BY DEF UploadInv
<1> DEFINE cl == client[c]
<1>2. /\ cl \in ClientSet /\ cl.step = "put" /\ cl.attempt \in 1 .. MaxAttempts
      /\ UNCHANGED <<status, asset, parts, transcode, issued, moves, raced, attempts, recoveries,
                     deaths>>
  BY <1>1, UploadAssumption DEF WellTyped, AttemptsFit, ClientSet, PutFails, history, counters
<1>3. PICK outcome \in {"failed", "aborted"} :
        Send(c, [cl EXCEPT !.step = "notify", !.outcome = outcome], requests)
  BY DEF PutFails
<1> DEFINE new == [cl EXCEPT !.step = "notify", !.outcome = outcome]
<1>4. /\ new \in ClientSet /\ new.step = "notify" /\ new.phase = cl.phase
      /\ new.attempt = cl.attempt /\ Send(c, new, requests)
  BY <1>2, <1>3 DEF ClientSet
<1>5. /\ object' \in [Key -> 0 .. MaxAttempts]
      /\ \A k \in Key : object[k] # 0 => object'[k] # 0
  BY <1>1, <1>2 DEF PutFails, WellTyped, ClientSet
<1>6. /\ client' \in [Client -> ClientSet]
      /\ \A d \in Client : client'[d].step # "none" => client'[d].attempt # 0
      /\ \A d \in Client : client'[d].phase = "done" => client[d].phase = "done"
      /\ \A q \in requests' :
           \/ q \in requests
           \/ /\ q \in RequestSet /\ OnItsPath(q) /\ q.seen <= moves
              /\ q.step # "recover" => q.attempt # 0
              /\ IssueFits(q) /\ CompletionFits(q)
  <2> HIDE DEF new
  <2> QED
    BY <1>2, <1>4, Sends
<1> QED
  BY <1>1, <1>2, <1>5, <1>6, Quiet DEF WellTyped

\* A client that gives up goes on as if it had been refused.
LEMMA GiveUpKeeps == ASSUME UploadInv, NEW c \in Client, GiveUp(c) PROVE UploadInv'
<1>1. WellTyped /\ AttemptsFit
  BY DEF UploadInv
<1>2. /\ client' \in [Client -> ClientSet]
      /\ \A d \in Client : client'[d].step # "none" => client'[d].attempt # 0
      /\ \A d \in Client : client'[d].phase = "done" => client[d].phase = "done"
      /\ \A q \in requests' :
           \/ q \in requests
           \/ /\ q \in RequestSet /\ q.step = "notify" /\ q.pc = "load" /\ q.seen = 0
              /\ q.attempt # 0
  BY <1>1, Continues DEF GiveUp
<1>3. /\ UNCHANGED <<status, asset, object, parts, transcode, issued, moves, raced,
                     attempts, recoveries, deaths>>
      /\ moves \in Nat
  BY <1>1 DEF GiveUp, bucket, history, counters, WellTyped
<1>4. \A q \in requests' :
        \/ q \in requests
        \/ /\ q \in RequestSet /\ OnItsPath(q) /\ q.seen <= moves
           /\ q.step # "recover" => q.attempt # 0
           /\ IssueFits(q) /\ CompletionFits(q)
  BY <1>2, <1>3, FreshFits
<1> QED
  BY <1>1, <1>2, <1>3, <1>4, Quiet DEF WellTyped

\* The operator's recovery is a request that only rolls back (recoverStalledUpload).
LEMMA RecoverKeeps == ASSUME UploadInv, NEW c \in Client, Recover(c) PROVE UploadInv'
<1>1. WellTyped /\ AttemptsFit
  BY DEF UploadInv
<1> DEFINE q == [Request(client[c], c, "recover") EXCEPT !.attempt = 0, !.pc = "rollback"]
<1>2. client[c] \in ClientSet /\ moves \in Nat /\ client' = client
  BY <1>1 DEF WellTyped, Recover
<1>3. /\ q \in RequestSet /\ q.step = "recover" /\ q.pc = "rollback" /\ q.seen = 0
  <2> DEFINE asked == Request(client[c], c, "recover")
  <2>1. asked \in RequestSet /\ asked.step = "recover" /\ asked.seen = 0
    BY <1>2 DEF Request, RequestSet, ClientSet, Pc
  <2>2. 0 \in 0 .. MaxAttempts /\ "rollback" \in Pc
    BY UploadAssumption DEF Pc
  <2> HIDE DEF asked
  <2>3. q = [asked EXCEPT !.attempt = 0, !.pc = "rollback"]
    BY DEF asked
  <2> QED
    BY <2>1, <2>2, <2>3 DEF RequestSet
<1>4. requests' = requests \union {q}
  BY DEF Recover
<1> HIDE DEF q
<1>5. OnItsPath(q) /\ q.seen <= moves /\ IssueFits(q) /\ CompletionFits(q)
  BY <1>2, <1>3 DEF OnItsPath, IssueFits, CompletionFits, IsIssue, IsAbort, IsComplete
<1>6. \A p \in requests' : p \in requests \/ p = q
  BY <1>4
<1>7. /\ UNCHANGED <<status, asset, object, parts, transcode, issued, moves, raced,
                     attempts, deaths>>
      /\ recoveries' \in Nat
  BY <1>1 DEF Recover, bucket, history, WellTyped
<1>8. \A p \in requests' :
        \/ p \in requests
        \/ /\ p \in RequestSet /\ OnItsPath(p) /\ p.seen <= moves
           /\ p.step # "recover" => p.attempt # 0
           /\ IssueFits(p) /\ CompletionFits(p)
  BY <1>3, <1>5, <1>6
<1> QED
  BY <1>1, <1>2, <1>7, <1>8, Quiet DEF WellTyped, AttemptsFit

\* A request that dies is only gone.
LEMMA DieKeeps == ASSUME UploadInv, NEW r \in requests, Die(r) PROVE UploadInv'
<1>1. WellTyped /\ AttemptsFit
  BY DEF UploadInv
<1>2. /\ UNCHANGED <<status, asset, object, parts, transcode, issued, moves, raced, client,
                     attempts, recoveries>>
      /\ requests' \subseteq requests /\ deaths' \in Nat
  BY <1>1 DEF Die, bucket, history, WellTyped
<1> QED
  BY <1>1, <1>2, Quiet DEF WellTyped, AttemptsFit

-------------------------------------------------------------------------------
(* The handlers *)

\* A request that goes on, and fits where it goes, leaves the rest as it is.
LEMMA QuietGoto ==
  ASSUME UploadInv, NEW r \in requests, NEW n \in RequestSet,
         UNCHANGED <<status, asset, transcode, issued, moves, raced, client,
                     attempts, recoveries, deaths>>,
         object' \in [Key -> 0 .. MaxAttempts], parts' \subseteq 1 .. MaxAttempts,
         \A k \in Key : object[k] # 0 => object'[k] # 0,
         requests' = (requests \ {r}) \union {n}, n.seen <= moves,
         n.step # "recover" => n.attempt # 0,
         OnItsPath(n), IssueFits(n), CompletionFits(n)
  PROVE  UploadInv'
<1>1. WellTyped /\ AttemptsFit
  BY DEF UploadInv
<1>2. \A q \in requests' : q \in requests \/ q = n
  OBVIOUS
<1>3. \A q \in requests' :
        \/ q \in requests
        \/ /\ q \in RequestSet /\ OnItsPath(q) /\ q.seen <= moves
           /\ q.step # "recover" => q.attempt # 0
           /\ IssueFits(q) /\ CompletionFits(q)
  BY <1>2
<1> QED
  BY <1>1, <1>3, Quiet DEF WellTyped, AttemptsFit

\* What is loaded is what the content is (the status checks of the handlers).
LEMMA LoadKeeps == ASSUME UploadInv, NEW r \in requests, Load(r) PROVE UploadInv'
<1>1. WellTyped /\ AttemptsFit /\ r \in RequestSet
  BY DEF UploadInv, WellTyped
<1>2. /\ r.pc = "load" /\ UNCHANGED <<status, asset, bucket, transcode, history, counters>>
      /\ r.step # "recover" => r.attempt # 0
  BY <1>1 DEF Load, AttemptsFit
<1>3. UNCHANGED <<status, asset, transcode, issued, moves, raced, attempts, recoveries, deaths,
                  object, parts>>
  BY <1>2 DEF bucket, history, counters
<1>4. CASE Reply(r, FALSE)
  BY <1>2, <1>4, QuietReply
<1>5. CASE IsIssue(r) /\ status \in ISSUABLE /\ Goto(r, "upsert")
  <2>1. PICK n \in RequestSet :
           /\ requests' = (requests \ {r}) \union {n} /\ client' = client
           /\ n.step = r.step /\ n.by = r.by /\ n.attempt = r.attempt
           /\ n.key = r.key /\ n.multi = r.multi /\ n.pc = "upsert"
           /\ n.seen <= moves
    BY <1>1, <1>5, Onwards DEF Pc
  <2>2. OnItsPath(n) /\ IssueFits(n) /\ CompletionFits(n)
    BY <1>5, <2>1 DEF OnItsPath, IssueFits, CompletionFits, IsIssue, IsAbort, IsComplete
  <2> QED
    BY <1>1, <1>2, <1>3, <2>1, <2>2, QuietGoto DEF WellTyped
<1>6. CASE (IsComplete(r) \/ IsAbort(r)) /\ status = "uploading" /\ Goto(r, "find")
  <2>1. PICK n \in RequestSet :
           /\ requests' = (requests \ {r}) \union {n} /\ client' = client
           /\ n.step = r.step /\ n.by = r.by /\ n.attempt = r.attempt
           /\ n.key = r.key /\ n.multi = r.multi /\ n.pc = "find"
           /\ n.seen <= moves
    BY <1>1, <1>6, Onwards DEF Pc
  <2>2. OnItsPath(n) /\ IssueFits(n) /\ CompletionFits(n)
    BY <1>6, <2>1 DEF OnItsPath, IssueFits, CompletionFits, IsIssue, IsAbort, IsComplete, Pc
  <2> QED
    BY <1>1, <1>2, <1>3, <2>1, <2>2, QuietGoto DEF WellTyped
<1> QED
  BY <1>4, <1>5, <1>6 DEF Load

\* The original a completion finds is the issued one (findOriginal).
LEMMA CheckOriginalKeeps ==
  ASSUME UploadInv, NEW r \in requests, CheckOriginal(r) PROVE UploadInv'
<1>1. WellTyped /\ AttemptsFit /\ CompletionFits(r) /\ OriginalFits
  BY DEF UploadInv, RequestsFit
<1>2. /\ r \in RequestSet /\ r.pc = "find" /\ (IsComplete(r) \/ IsAbort(r)) /\ r.seen <= moves
      /\ r.attempt # 0
  BY <1>1, Paths DEF CheckOriginal
<1>3. UNCHANGED <<status, asset, transcode, issued, moves, raced, attempts, recoveries, deaths,
                  object, parts>>
  BY DEF CheckOriginal, bucket, history, counters
<1>4. \/ Goto(r, "rollback")
      \/ /\ r.key \in FindOriginal
         /\ \/ r.multi /\ Goto(r, "store")
            \/ ~ r.multi /\ Goto(r, "head")
  BY DEF CheckOriginal
<1>5. ASSUME NEW pc \in {"rollback", "store", "head"}, Goto(r, pc),
             pc = "store" => r.key \in FindOriginal /\ r.multi,
             pc = "head" => r.key \in FindOriginal /\ ~ r.multi
      PROVE  UploadInv'
  <2>1. PICK n \in RequestSet :
           /\ requests' = (requests \ {r}) \union {n} /\ client' = client
           /\ n.step = r.step /\ n.by = r.by /\ n.attempt = r.attempt
           /\ n.key = r.key /\ n.multi = r.multi /\ n.pc = pc
           /\ n.seen = IF r.pc = "load" /\ ~ IsAbort(r) THEN moves ELSE r.seen
           /\ n.seen <= moves
    BY <1>1, <1>5, Onwards DEF Pc
  <2>2. n.seen = r.seen
    BY <1>2, <2>1
  <2>3. OnItsPath(n) /\ IssueFits(n)
    BY <1>2, <1>5, <2>1 DEF OnItsPath, IssueFits, IsIssue, IsAbort, IsComplete, Pc
  <2>4. ASSUME ~ raced, status = "uploading", r.key \in FindOriginal PROVE r.key = issued
    BY <1>1, <1>2, <2>4 DEF OriginalFits, FindOriginal, Recorded, RequestSet
  <2>5. CompletionFits(n)
    BY <1>1, <1>2, <1>5, <2>1, <2>2, <2>4 DEF CompletionFits, IsComplete
  <2> QED
    BY <1>1, <1>2, <1>3, <2>1, <2>3, <2>5, QuietGoto DEF WellTyped
<1> QED
  BY <1>4, <1>5

\* The bucket assembles the parts of the attempt or refuses (completeMultipart).
LEMMA CompleteMultipartKeeps ==
  ASSUME UploadInv, NEW r \in requests, CompleteMultipart(r) PROVE UploadInv'
<1>1. WellTyped /\ AttemptsFit /\ CompletionFits(r)
  BY DEF UploadInv, RequestsFit
<1>2. /\ r \in RequestSet /\ r.pc = "store" /\ IsComplete(r) /\ r.seen <= moves
      /\ r.attempt \in 1 .. MaxAttempts
  BY <1>1, Paths DEF CompleteMultipart
<1>3. /\ UNCHANGED <<status, asset, transcode, issued, moves, raced, attempts, recoveries, deaths>>
      /\ object' \in [Key -> 0 .. MaxAttempts] /\ parts' \subseteq 1 .. MaxAttempts
      /\ \A k \in Key : object[k] # 0 => object'[k] # 0
  <2>1. /\ object \in [Key -> 0 .. MaxAttempts] /\ parts \subseteq 1 .. MaxAttempts
        /\ r.key \in Key
    BY <1>1, <1>2 DEF WellTyped, RequestSet
  <2>2. \/ object' = [object EXCEPT ![r.key] = r.attempt] /\ parts' = parts \ {r.attempt}
        \/ object' = object /\ parts' = parts
    BY DEF CompleteMultipart, bucket
  <2>3. UNCHANGED <<status, asset, transcode, issued, moves, raced, attempts, recoveries, deaths>>
    BY DEF CompleteMultipart, history, counters
  <2>4. object' \in [Key -> 0 .. MaxAttempts]
    BY <1>2, <2>1, <2>2
  <2>5. \A k \in Key : object[k] # 0 => object'[k] # 0
    BY <1>2, <2>1, <2>2
  <2> QED
    BY <2>1, <2>2, <2>3, <2>4, <2>5
<1>4. PICK pc \in {"head", "markFailed"} : Goto(r, pc)
  BY DEF CompleteMultipart
<1>5. PICK n \in RequestSet :
         /\ requests' = (requests \ {r}) \union {n} /\ client' = client
         /\ n.step = r.step /\ n.by = r.by /\ n.attempt = r.attempt
         /\ n.key = r.key /\ n.multi = r.multi /\ n.pc = pc
         /\ n.seen = IF r.pc = "load" /\ ~ IsAbort(r) THEN moves ELSE r.seen
         /\ n.seen <= moves
  BY <1>1, <1>4, Onwards DEF Pc
<1>6. n.seen = r.seen
  BY <1>2, <1>5
<1>7. OnItsPath(n) /\ IssueFits(n) /\ CompletionFits(n)
  BY <1>1, <1>2, <1>4, <1>5, <1>6
     DEF OnItsPath, IssueFits, CompletionFits, IsIssue, IsAbort, IsComplete, Pc
<1> QED
  BY <1>1, <1>2, <1>3, <1>5, <1>7, QuietGoto

\* An abort only drops parts before it rolls back (abortMultipartUpload).
LEMMA AbortMultipartKeeps ==
  ASSUME UploadInv, NEW r \in requests, AbortMultipart(r) PROVE UploadInv'
<1>1. WellTyped /\ AttemptsFit
  BY DEF UploadInv
<1>2. /\ r \in RequestSet /\ r.pc = "store" /\ IsAbort(r) /\ r.attempt # 0
  BY <1>1, Paths DEF AbortMultipart
<1>3. /\ UNCHANGED <<status, asset, object, transcode, issued, moves, raced, attempts, recoveries,
                     deaths>>
      /\ parts' \subseteq 1 .. MaxAttempts
  BY <1>1 DEF AbortMultipart, history, counters, WellTyped
<1>4. PICK n \in RequestSet :
         /\ requests' = (requests \ {r}) \union {n} /\ client' = client
         /\ n.step = r.step /\ n.by = r.by /\ n.attempt = r.attempt
         /\ n.key = r.key /\ n.multi = r.multi /\ n.pc = "rollback"
         /\ n.seen <= moves
  BY <1>1, Onwards DEF Pc, AbortMultipart
<1>5. OnItsPath(n) /\ IssueFits(n) /\ CompletionFits(n)
  BY <1>2, <1>4 DEF OnItsPath, IssueFits, CompletionFits, IsIssue, IsAbort, IsComplete
<1> QED
  BY <1>1, <1>2, <1>3, <1>4, <1>5, QuietGoto DEF WellTyped

\* Only an object that is there lets a completion go on (headObject).
LEMMA HeadObjectKeeps ==
  ASSUME UploadInv, NEW r \in requests, HeadObject(r) PROVE UploadInv'
<1>1. WellTyped /\ AttemptsFit /\ CompletionFits(r)
  BY DEF UploadInv, RequestsFit
<1>2. /\ r \in RequestSet /\ r.pc = "head" /\ IsComplete(r) /\ r.attempt # 0
  BY <1>1, Paths DEF HeadObject
<1>3. UNCHANGED <<status, asset, object, parts, transcode, issued, moves, raced, attempts,
                  recoveries, deaths>>
  BY DEF HeadObject, bucket, history, counters
<1>4. PICK pc \in {"ready", "markFailed"} : Goto(r, pc) /\ (pc = "ready" => object[r.key] # 0)
  BY DEF HeadObject
<1>5. PICK n \in RequestSet :
         /\ requests' = (requests \ {r}) \union {n} /\ client' = client
         /\ n.step = r.step /\ n.by = r.by /\ n.attempt = r.attempt
         /\ n.key = r.key /\ n.multi = r.multi /\ n.pc = pc
         /\ n.seen = IF r.pc = "load" /\ ~ IsAbort(r) THEN moves ELSE r.seen
         /\ n.seen <= moves
  BY <1>1, <1>4, Onwards DEF Pc
<1>6. n.seen = r.seen
  BY <1>2, <1>5
<1>7. OnItsPath(n) /\ IssueFits(n) /\ CompletionFits(n)
  BY <1>1, <1>2, <1>4, <1>5, <1>6
     DEF OnItsPath, IssueFits, CompletionFits, IsIssue, IsAbort, IsComplete, Pc
<1> QED
  BY <1>1, <1>2, <1>3, <1>5, <1>7, QuietGoto DEF WellTyped

\* An issue that keeps the status, adds or removes rows, and has noticed whether anybody else
\* is at it.
LEMMA IssueGoesOn ==
  ASSUME UploadInv, NEW r \in requests, NEW n \in RequestSet, IsIssue(r), r.pc # "load",
         raced' = Races(r),
         UNCHANGED <<status, object, parts, transcode, issued, moves, client,
                     attempts, recoveries, deaths>>,
         asset' \in [Key -> {"none", "pending", "ready", "failed"}],
         requests' = (requests \ {r}) \union {n}, n.seen <= moves, n.seen = r.seen,
         n.attempt # 0, OnItsPath(n), IsIssue(n), n.key = r.key, n.pc \in {"sweep", "begin"},
         ~ raced' => asset'[r.key] \in Recorded,
         ~ raced' => \A k \in Key \ {r.key} : asset[k] = "none" \/ n.pc = "begin" => asset'[k] = "none"
  PROVE  UploadInv'
<1>1. WellTyped /\ AttemptsFit /\ RequestsFit /\ r \in RequestSet
  BY DEF UploadInv, WellTyped
<1>2. /\ raced' \in BOOLEAN
      /\ ~ raced' => ~ raced /\ r.seen = moves
      /\ ~ raced' => \A q \in requests : IsIssue(q) /\ q.key # r.key => q.pc = "load"
  BY <1>1, Unraced
<1>3. r.seen = moves => status \in ISSUABLE
  BY <1>1 DEF RequestsFit, IssueFits
<1>4. WellTyped' /\ AttemptsFit'
  BY <1>1, <1>2 DEF WellTyped, AttemptsFit
<1>5. ASSUME NEW q \in requests PROVE IssueFits(q)' /\ CompletionFits(q)'
  <2>1. IssueFits(q) /\ CompletionFits(q) /\ q \in RequestSet
    BY <1>1 DEF RequestsFit, WellTyped
  <2>2. CompletionFits(q)'
    BY <1>2, <2>1 DEF CompletionFits
  <2>3. ASSUME IsIssue(q), q.pc # "load", q.seen = moves, ~ raced' PROVE q.key = r.key
    BY <1>2, <2>3
  <2>4. ASSUME NEW k \in Key \ {r.key}, ~ raced', asset[k] = "none" PROVE asset'[k] = "none"
    BY <2>4
  <2>5. IssueFits(q)'
    BY <1>2, <2>1, <2>3, <2>4 DEF IssueFits, IsIssue
  <2> QED
    BY <2>2, <2>5
<1>6. ASSUME NEW k \in Key \ {r.key}, ~ raced', n.pc = "begin" PROVE asset'[k] = "none"
  BY <1>6
<1>7. IssueFits(n)' /\ CompletionFits(n)'
  BY <1>3, <1>6 DEF IssueFits, CompletionFits, IsIssue, IsComplete
<1>8. RequestsFit'
  BY <1>5, <1>7 DEF RequestsFit
<1>9. OriginalFits'
  BY <1>2, <1>3 DEF OriginalFits, ISSUABLE
<1>10. TranscodeHasObject' /\ DoneIsUploaded' /\ (transcode' # {} => status' = "uploaded")
  BY <1>2 DEF UploadInv, TranscodeHasObject, DoneIsUploaded
<1> QED
  BY <1>4, <1>8, <1>9, <1>10 DEF UploadInv

\* The row of the issued key starts over (createOriginalPending).
LEMMA UpsertKeeps == ASSUME UploadInv, NEW r \in requests, UpsertOriginal(r) PROVE UploadInv'
<1>1. WellTyped /\ AttemptsFit
  BY DEF UploadInv
<1>2. /\ r \in RequestSet /\ r.pc = "upsert" /\ IsIssue(r) /\ r.attempt # 0
  BY <1>1, Paths DEF UpsertOriginal
<1>3. /\ UNCHANGED <<status, object, parts, transcode, issued, moves, attempts, recoveries, deaths>>
      /\ asset' = [asset EXCEPT ![r.key] = "pending"] /\ raced' = Races(r)
  BY DEF UpsertOriginal, bucket, counters
<1>4. PICK n \in RequestSet :
         /\ requests' = (requests \ {r}) \union {n} /\ client' = client
         /\ n.step = r.step /\ n.by = r.by /\ n.attempt = r.attempt
         /\ n.key = r.key /\ n.multi = r.multi /\ n.pc = "sweep"
         /\ n.seen = IF r.pc = "load" /\ ~ IsAbort(r) THEN moves ELSE r.seen
         /\ n.seen <= moves
  BY <1>1, Onwards DEF Pc, UpsertOriginal
<1>5. n.seen = r.seen /\ OnItsPath(n) /\ IsIssue(n)
  BY <1>2, <1>4 DEF OnItsPath, IsIssue, IsAbort, IsComplete
<1>6. /\ asset' \in [Key -> {"none", "pending", "ready", "failed"}]
      /\ asset'[r.key] \in Recorded
      /\ \A k \in Key \ {r.key} : asset'[k] = asset[k]
  BY <1>1, <1>2, <1>3 DEF WellTyped, RequestSet, Recorded
<1> QED
  BY <1>2, <1>3, <1>4, <1>5, <1>6, IssueGoesOn

\* The rows of other keys go (createOriginalPending).
LEMMA SweepKeeps == ASSUME UploadInv, NEW r \in requests, SweepOriginals(r) PROVE UploadInv'
<1>1. WellTyped /\ AttemptsFit /\ IssueFits(r)
  BY DEF UploadInv, RequestsFit
<1>2. /\ r \in RequestSet /\ r.pc = "sweep" /\ IsIssue(r) /\ r.attempt # 0
  BY <1>1, Paths DEF SweepOriginals
<1>3. /\ UNCHANGED <<status, object, parts, transcode, issued, moves, attempts, recoveries, deaths>>
      /\ asset' = [k \in Key |-> IF k = r.key THEN asset[k] ELSE "none"] /\ raced' = Races(r)
  BY DEF SweepOriginals, bucket, counters
<1>4. PICK n \in RequestSet :
         /\ requests' = (requests \ {r}) \union {n} /\ client' = client
         /\ n.step = r.step /\ n.by = r.by /\ n.attempt = r.attempt
         /\ n.key = r.key /\ n.multi = r.multi /\ n.pc = "begin"
         /\ n.seen = IF r.pc = "load" /\ ~ IsAbort(r) THEN moves ELSE r.seen
         /\ n.seen <= moves
  BY <1>1, Onwards DEF Pc, SweepOriginals
<1>5. n.seen = r.seen /\ OnItsPath(n) /\ IsIssue(n)
  BY <1>2, <1>4 DEF OnItsPath, IsIssue, IsAbort, IsComplete
<1>6. ~ raced' => ~ raced /\ r.seen = moves
  BY <1>1, <1>3, Unraced
<1>7. /\ asset' \in [Key -> {"none", "pending", "ready", "failed"}]
      /\ asset'[r.key] = asset[r.key]
      /\ \A k \in Key \ {r.key} : asset'[k] = "none"
  BY <1>1, <1>2, <1>3 DEF WellTyped, RequestSet
<1>8. ~ raced' => asset'[r.key] \in Recorded
  BY <1>1, <1>2, <1>6, <1>7 DEF IssueFits
<1> QED
  BY <1>2, <1>3, <1>4, <1>5, <1>7, <1>8, IssueGoesOn

\* What an answer and what a request that goes on leave in common: requests that were there,
\* one that was sent just now, and one that fits where it goes.
LEMMA Overtaken ==
  ASSUME UploadInv, moves' = moves + 1, raced' \in BOOLEAN,
         status' # "uploaded" => status # "uploaded",
         \A k \in Key : object[k] # 0 => object'[k] # 0,
         NEW q \in requests, CompletionFits(q), q.pc = "enqueue" => status' = "uploaded"
  PROVE  q.seen <= moves' /\ IssueFits(q)' /\ CompletionFits(q)'
<1>1. q \in RequestSet /\ moves \in Nat /\ q.seen <= moves
  BY DEF UploadInv, WellTyped, AttemptsFit
<1>2. q.seen < moves' /\ q.key \in Key
  BY <1>1 DEF RequestSet
<1>3. IssueFits(q)'
  BY <1>1, <1>2 DEF IssueFits, RequestSet
<1>4. CompletionFits(q)'
  BY <1>1, <1>2 DEF CompletionFits, RequestSet
<1> QED
  BY <1>1, <1>2, <1>3, <1>4 DEF RequestSet

\* The content goes to uploading with a row that is alone (beginUpload).
LEMMA BeginKeeps == ASSUME UploadInv, NEW r \in requests, BeginUpload(r) PROVE UploadInv'
<1>1. WellTyped /\ AttemptsFit /\ IssueFits(r) /\ RequestsFit
  BY DEF UploadInv, RequestsFit
<1>2. /\ r \in RequestSet /\ r.pc = "begin" /\ IsIssue(r)
      /\ UNCHANGED <<asset, bucket, transcode, counters>>
  BY <1>1, Paths DEF BeginUpload
<1>3. CASE status \notin ISSUABLE
  BY <1>2, <1>3, QuietReply DEF BeginUpload, history
<1>4. CASE status \in ISSUABLE
  <2>1. /\ status' = "uploading" /\ moves' = moves + 1 /\ issued' = r.key /\ raced' = Races(r)
        /\ Reply(r, TRUE)
        /\ UNCHANGED <<asset, object, parts, transcode, attempts, recoveries, deaths>>
    BY <1>2, <1>4 DEF BeginUpload, bucket, counters
  <2>2. /\ client' \in [Client -> ClientSet]
        /\ \A d \in Client : client'[d].step # "none" => client'[d].attempt # 0
        /\ \A d \in Client : client'[d].phase = "done" => client[d].phase = "done"
        /\ \A q \in requests' :
             \/ q \in requests
             \/ /\ q \in RequestSet /\ q.step = "notify" /\ q.pc = "load" /\ q.seen = 0
                /\ q.attempt # 0
    BY <1>1, <1>2, <2>1, Replies DEF IsIssue
  <2>3. /\ raced' \in BOOLEAN
        /\ ~ raced' => ~ raced /\ r.seen = moves
    BY <1>1, <2>1, Unraced
  <2>4. moves \in Nat /\ moves' \in Nat /\ r.key \in Key
    BY <1>1, <1>2, <2>1 DEF WellTyped, RequestSet
  <2>5. transcode = {} /\ \A d \in Client : client[d].phase # "done"
    BY <1>4 DEF UploadInv, DoneIsUploaded, ISSUABLE
  <2>6. \A q \in requests : q.pc # "enqueue"
    BY <1>1, <1>4, Paths DEF RequestsFit, CompletionFits, ISSUABLE
  <2>7. ASSUME NEW q \in requests'
        PROVE  /\ q \in RequestSet /\ OnItsPath(q) /\ q.seen <= moves'
               /\ (q.step # "recover" => q.attempt # 0)
               /\ IssueFits(q)' /\ CompletionFits(q)'
    <3>1. CASE q \in requests
      <4>1. CompletionFits(q) /\ q \in RequestSet /\ OnItsPath(q)
                /\ (q.step # "recover" => q.attempt # 0)
        BY <1>1, <3>1 DEF RequestsFit, WellTyped, AttemptsFit
      <4>2. q.seen <= moves' /\ IssueFits(q)' /\ CompletionFits(q)'
        BY <1>4, <2>1, <2>3, <2>6, <3>1, <4>1, Overtaken DEF ISSUABLE
      <4> QED
        BY <4>1, <4>2
    <3>2. CASE q \notin requests
      BY <2>2, <2>4, <3>2, FreshFits
    <3> QED
      BY <3>1, <3>2
  <2>8. WellTyped' /\ AttemptsFit' /\ RequestsFit'
    BY <1>1, <2>1, <2>2, <2>3, <2>4, <2>7 DEF WellTyped, AttemptsFit, RequestsFit
  <2>9. OriginalFits'
    BY <1>1, <1>2, <2>1, <2>3 DEF OriginalFits, IssueFits
  <2>10. TranscodeHasObject' /\ DoneIsUploaded' /\ transcode' = {}
    BY <2>1, <2>2, <2>5 DEF TranscodeHasObject, DoneIsUploaded
  <2> QED
    BY <2>8, <2>9, <2>10 DEF UploadInv
<1> QED
  BY <1>3, <1>4

\* A failure moves the content away, and every request loaded before (failUploadTx).
LEMMA FailUploadKeeps == ASSUME UploadInv, NEW r \in requests, FailUpload(r) PROVE UploadInv'
<1>1. WellTyped /\ AttemptsFit /\ RequestsFit
  BY DEF UploadInv
<1>2. /\ r \in RequestSet /\ r.pc \in {"rollback", "markFailed"}
      /\ UNCHANGED <<bucket, transcode, issued, raced, counters>>
  BY <1>1 DEF FailUpload, WellTyped
<1>3. CASE status # "uploading"
  <2>1. Reply(r, FALSE) /\ UNCHANGED <<status, asset, moves>>
    BY <1>3 DEF FailUpload
  <2> QED
    BY <1>2, <2>1, QuietReply DEF history
<1>4. CASE status = "uploading"
  <2>1. /\ status' = "upload_failed" /\ moves' = moves + 1
        /\ asset' = IF r.pc = "markFailed" /\ asset[r.key] # "none"
                      THEN [asset EXCEPT ![r.key] = "failed"] ELSE asset
        /\ Reply(r, IsAbort(r))
        /\ UNCHANGED <<object, parts, transcode, issued, raced, attempts, recoveries, deaths>>
    <3>1. Reply(r, IsAbort(r) /\ status = "uploading") /\ (IsAbort(r) /\ status = "uploading") = IsAbort(r)
      BY <1>4 DEF FailUpload, IsAbort
    <3> QED
      BY <1>2, <1>4, <3>1 DEF FailUpload, bucket, counters
  <2>2. IsAbort(r) \in BOOLEAN /\ (IsAbort(r) => r.step # "complete")
    BY DEF IsAbort
  <2>3. /\ client' \in [Client -> ClientSet]
        /\ \A d \in Client : client'[d].step # "none" => client'[d].attempt # 0
        /\ \A d \in Client : client'[d].phase = "done" => client[d].phase = "done"
        /\ \A q \in requests' :
             \/ q \in requests
             \/ /\ q \in RequestSet /\ q.step = "notify" /\ q.pc = "load" /\ q.seen = 0
                /\ q.attempt # 0
    BY <1>1, <2>1, <2>2, Replies
  <2>4. moves \in Nat /\ moves' \in Nat /\ raced' \in BOOLEAN
        /\ asset' \in [Key -> {"none", "pending", "ready", "failed"}]
    BY <1>1, <1>2, <2>1 DEF WellTyped, RequestSet
  <2>5. transcode = {} /\ \A d \in Client : client[d].phase # "done"
    BY <1>4 DEF UploadInv, DoneIsUploaded
  <2>6. \A q \in requests : q.pc # "enqueue"
    BY <1>1, <1>4, Paths DEF RequestsFit, CompletionFits
  <2>7. ASSUME NEW q \in requests'
        PROVE  /\ q \in RequestSet /\ OnItsPath(q) /\ q.seen <= moves'
               /\ (q.step # "recover" => q.attempt # 0)
               /\ IssueFits(q)' /\ CompletionFits(q)'
    <3>1. CASE q \in requests
      <4>1. CompletionFits(q) /\ q \in RequestSet /\ OnItsPath(q)
                /\ (q.step # "recover" => q.attempt # 0)
        BY <1>1, <3>1 DEF RequestsFit, WellTyped, AttemptsFit
      <4>2. q.seen <= moves' /\ IssueFits(q)' /\ CompletionFits(q)'
        BY <1>4, <2>1, <2>4, <2>6, <3>1, <4>1, Overtaken
      <4> QED
        BY <4>1, <4>2
    <3>2. CASE q \notin requests
      BY <2>3, <2>4, <3>2, FreshFits
    <3> QED
      BY <3>1, <3>2
  <2>8. WellTyped' /\ AttemptsFit' /\ RequestsFit'
    BY <1>1, <2>1, <2>3, <2>4, <2>7 DEF WellTyped, AttemptsFit, RequestsFit
  <2>9. OriginalFits'
    BY <2>1 DEF OriginalFits
  <2>10. TranscodeHasObject' /\ DoneIsUploaded' /\ transcode' = {}
    BY <2>1, <2>3, <2>5 DEF TranscodeHasObject, DoneIsUploaded
  <2> QED
    BY <2>8, <2>9, <2>10 DEF UploadInv
<1> QED
  BY <1>3, <1>4

\* Only a row that is there becomes ready (markReady).
LEMMA MarkReadyKeeps == ASSUME UploadInv, NEW r \in requests, MarkReady(r) PROVE UploadInv'
<1>1. WellTyped /\ AttemptsFit /\ RequestsFit /\ CompletionFits(r) /\ OriginalFits
  BY DEF UploadInv, RequestsFit
<1>2. /\ r \in RequestSet /\ r.pc = "ready" /\ IsComplete(r) /\ r.attempt # 0
      /\ UNCHANGED <<status, bucket, transcode, history, counters>>
  BY <1>1, Paths DEF MarkReady
<1>3. CASE asset[r.key] = "none"
  BY <1>2, <1>3, QuietReply DEF MarkReady
<1>4. CASE asset[r.key] # "none"
  <2>1. /\ asset' = [asset EXCEPT ![r.key] = "ready"] /\ Goto(r, "hop")
        /\ UNCHANGED <<status, object, parts, transcode, issued, moves, raced, attempts,
                       recoveries, deaths>>
    BY <1>2, <1>4 DEF MarkReady, bucket, history, counters
  <2>2. PICK n \in RequestSet :
           /\ requests' = (requests \ {r}) \union {n} /\ client' = client
           /\ n.step = r.step /\ n.by = r.by /\ n.attempt = r.attempt
           /\ n.key = r.key /\ n.multi = r.multi /\ n.pc = "hop"
           /\ n.seen = IF r.pc = "load" /\ ~ IsAbort(r) THEN moves ELSE r.seen
           /\ n.seen <= moves
    BY <1>1, <2>1, Onwards DEF Pc
  <2>3. n.seen = r.seen
    BY <1>2, <2>2
  <2>4. /\ asset' \in [Key -> {"none", "pending", "ready", "failed"}] /\ r.key \in Key
        /\ \A k \in Key : asset[k] \in Recorded => asset'[k] \in Recorded
        /\ \A k \in Key : asset[k] = "none" => asset'[k] = "none"
    BY <1>1, <1>2, <1>4, <2>1 DEF WellTyped, RequestSet, Recorded
  <2>5. OnItsPath(n) /\ IssueFits(n)' /\ CompletionFits(n)'
    BY <1>1, <1>2, <2>1, <2>2, <2>3
       DEF OnItsPath, IssueFits, CompletionFits, IsIssue, IsAbort, IsComplete, Pc
  <2>6. ASSUME NEW q \in requests PROVE IssueFits(q)' /\ CompletionFits(q)'
    <3>1. IssueFits(q) /\ CompletionFits(q) /\ q.key \in Key
      BY <1>1 DEF RequestsFit, WellTyped, RequestSet
    <3>2. IssueFits(q)'
      BY <2>1, <2>4, <3>1 DEF IssueFits
    <3>3. CompletionFits(q)'
      BY <2>1, <3>1 DEF CompletionFits
    <3> QED
      BY <3>2, <3>3
  <2>7. WellTyped' /\ AttemptsFit' /\ RequestsFit'
    BY <1>1, <1>2, <2>1, <2>2, <2>4, <2>5, <2>6 DEF WellTyped, AttemptsFit, RequestsFit
  <2>8. OriginalFits'
    BY <1>1, <2>1, <2>4 DEF OriginalFits, WellTyped
  <2>9. TranscodeHasObject' /\ DoneIsUploaded' /\ (transcode' # {} => status' = "uploaded")
    BY <2>1, <2>2 DEF UploadInv, TranscodeHasObject, DoneIsUploaded
  <2> QED
    BY <2>7, <2>8, <2>9 DEF UploadInv
<1> QED
  BY <1>3, <1>4

\* The content that nobody has overtaken is uploaded with the object its completion saw
\* (completeUpload).
LEMMA CompleteUploadKeeps ==
  ASSUME UploadInv, NEW r \in requests, CompleteUpload(r) PROVE UploadInv'
<1>1. WellTyped /\ AttemptsFit /\ RequestsFit /\ CompletionFits(r) /\ OriginalFits
  BY DEF UploadInv, RequestsFit
<1>2. /\ r \in RequestSet /\ r.pc = "hop" /\ IsComplete(r) /\ r.attempt # 0
      /\ UNCHANGED <<asset, bucket, transcode, issued, counters>>
  BY <1>1, Paths DEF CompleteUpload
<1>3. CASE status # "uploading"
  BY <1>2, <1>3, QuietReply DEF CompleteUpload, history
<1>4. CASE status = "uploading"
  <2>1. /\ status' = "uploaded" /\ moves' = moves + 1 /\ raced' = Races(r) /\ Goto(r, "enqueue")
        /\ UNCHANGED <<asset, object, parts, transcode, issued, attempts, recoveries, deaths>>
    BY <1>2, <1>4 DEF CompleteUpload, bucket, counters
  <2>2. PICK n \in RequestSet :
           /\ requests' = (requests \ {r}) \union {n} /\ client' = client
           /\ n.step = r.step /\ n.by = r.by /\ n.attempt = r.attempt
           /\ n.key = r.key /\ n.multi = r.multi /\ n.pc = "enqueue"
           /\ n.seen <= moves
    BY <1>1, <2>1, Onwards DEF Pc
  <2>3. /\ raced' \in BOOLEAN
        /\ ~ raced' => ~ raced /\ r.seen = moves
    BY <1>1, <2>1, Unraced
  <2>4. moves \in Nat /\ moves' \in Nat
    BY <1>1, <2>1 DEF WellTyped
  <2>5. OnItsPath(n) /\ n.seen <= moves' /\ IssueFits(n)' /\ CompletionFits(n)'
    BY <1>2, <2>1, <2>2, <2>4
       DEF OnItsPath, IssueFits, CompletionFits, IsIssue, IsAbort, IsComplete, Pc, RequestSet
  <2>6. ASSUME NEW q \in requests
        PROVE  q.seen <= moves' /\ IssueFits(q)' /\ CompletionFits(q)'
    <3>1. CompletionFits(q)
      BY <1>1 DEF RequestsFit
    <3> QED
      BY <1>4, <2>1, <2>3, <3>1, Overtaken
  <2>7. WellTyped' /\ AttemptsFit' /\ RequestsFit'
    BY <1>1, <1>2, <2>1, <2>2, <2>3, <2>4, <2>5, <2>6 DEF WellTyped, AttemptsFit, RequestsFit
  <2>8. OriginalFits'
    BY <1>1, <1>2, <1>4, <2>1, <2>3 DEF OriginalFits, CompletionFits
  <2>9. TranscodeHasObject' /\ DoneIsUploaded'
    BY <1>4, <2>1, <2>2, <2>3 DEF UploadInv, TranscodeHasObject, DoneIsUploaded
  <2> QED
    BY <2>1, <2>7, <2>8, <2>9 DEF UploadInv
<1> QED
  BY <1>3, <1>4

\* The transcode is added for the original that was uploaded (enqueueTranscode).
LEMMA EnqueueTranscodeKeeps ==
  ASSUME UploadInv, NEW r \in requests, EnqueueTranscode(r) PROVE UploadInv'
<1>1. WellTyped /\ AttemptsFit /\ RequestsFit /\ CompletionFits(r) /\ OriginalFits
  BY DEF UploadInv, RequestsFit
<1>2. /\ r.pc = "enqueue" /\ status = "uploaded"
      /\ UNCHANGED <<status, asset, bucket, history, counters>>
  BY <1>1, Paths DEF EnqueueTranscode, CompletionFits
<1>3. CASE FindOriginal = {} /\ UNCHANGED transcode /\ Reply(r, FALSE)
  BY <1>2, <1>3, QuietReply
<1>4. ASSUME NEW k \in FindOriginal, transcode' = transcode \union {k}, Reply(r, TRUE)
      PROVE  UploadInv'
  <2>1. UNCHANGED <<status, asset, object, parts, issued, moves, raced, attempts, recoveries, deaths>>
    BY <1>2 DEF bucket, history, counters
  <2>2. /\ client' \in [Client -> ClientSet]
        /\ \A d \in Client : client'[d].step # "none" => client'[d].attempt # 0
        /\ \A q \in requests' :
             \/ q \in requests
             \/ /\ q \in RequestSet /\ q.step = "notify" /\ q.pc = "load" /\ q.seen = 0
                /\ q.attempt # 0
    BY <1>1, <1>4, Replies
  <2>3. moves \in Nat /\ moves' \in Nat /\ k \in Key
    BY <1>1, <2>1 DEF WellTyped, FindOriginal
  <2>4. ASSUME NEW q \in requests'
        PROVE  /\ q \in RequestSet /\ OnItsPath(q) /\ q.seen <= moves'
               /\ (q.step # "recover" => q.attempt # 0)
               /\ IssueFits(q)' /\ CompletionFits(q)'
    <3>1. CASE q \in requests
      <4>1. /\ IssueFits(q) /\ CompletionFits(q) /\ q \in RequestSet /\ OnItsPath(q)
            /\ (q.step # "recover" => q.attempt # 0) /\ q.seen <= moves
        BY <1>1, <3>1 DEF RequestsFit, WellTyped, AttemptsFit
      <4>2. IssueFits(q)' /\ CompletionFits(q)'
        BY <2>1, <4>1 DEF IssueFits, CompletionFits
      <4> QED
        BY <2>1, <4>1, <4>2
    <3>2. CASE q \notin requests
      BY <2>2, <2>3, <3>2, FreshFits
    <3> QED
      BY <3>1, <3>2
  <2>5. WellTyped' /\ AttemptsFit' /\ RequestsFit'
    BY <1>1, <1>4, <2>1, <2>2, <2>3, <2>4 DEF WellTyped, AttemptsFit, RequestsFit
  <2>6. ~ raced => k = issued /\ object[k] # 0
    BY <1>1, <1>2, <2>3 DEF OriginalFits, FindOriginal
  <2>7. OriginalFits'
    BY <1>1, <2>1 DEF OriginalFits
  <2>8. TranscodeHasObject'
    BY <1>4, <2>1, <2>6 DEF UploadInv, TranscodeHasObject
  <2>9. DoneIsUploaded' /\ status' = "uploaded"
    BY <1>2, <1>4, <2>1 DEF DoneIsUploaded
  <2> QED
    BY <2>5, <2>7, <2>8, <2>9 DEF UploadInv
<1> QED
  BY <1>3, <1>4 DEF EnqueueTranscode

-------------------------------------------------------------------------------
(* The theorem *)

\* A draft that nobody uploads to.
LEMMA UploadInit == Init => UploadInv
<1> SUFFICES ASSUME Init PROVE UploadInv
  OBVIOUS
<1> DEFINE first == CHOOSE k \in Key : TRUE
<1>1. first \in Key
  BY UploadAssumption
<1>2. WellTyped
  <2>1. /\ client = [c \in Client |-> [phase |-> "idle", step |-> "none", key |-> first,
                                      multi |-> FALSE, attempt |-> 0, outcome |-> "failed"]]
        /\ issued = first
    BY DEF Init
  <2> HIDE DEF first
  <2>2. 0 \in 0 .. MaxAttempts
    BY UploadAssumption
  <2>3. client \in [Client -> ClientSet] /\ issued \in Key
    BY <1>1, <2>1, <2>2 DEF ClientSet
  <2> QED
    BY <2>2, <2>3, UploadAssumption DEF Init, WellTyped
<1>3. AttemptsFit /\ RequestsFit
  BY DEF Init, AttemptsFit, RequestsFit
<1>4. OriginalFits /\ TranscodeHasObject /\ DoneIsUploaded /\ transcode = {}
  BY DEF Init, OriginalFits, TranscodeHasObject, DoneIsUploaded
<1> QED
  BY <1>2, <1>3, <1>4 DEF UploadInv

\* Every step of the uploads keeps the invariant.
LEMMA UploadNext == UploadInv /\ [Next]_vars => UploadInv'
<1> SUFFICES ASSUME UploadInv, [Next]_vars PROVE UploadInv'
  OBVIOUS
<1>1. CASE UNCHANGED vars
  <2>1. UNCHANGED <<status, asset, object, parts, transcode, client, requests, issued, moves, raced,
                    attempts, recoveries, deaths>>
    BY <1>1 DEF vars, bucket, history, counters
  <2> QED
    BY <2>1 DEF UploadInv, WellTyped, AttemptsFit, RequestsFit, IssueFits, CompletionFits,
                OriginalFits, TranscodeHasObject, DoneIsUploaded
<1>2. ASSUME NEW r \in requests,
             \/ Load(r) \/ UpsertOriginal(r) \/ SweepOriginals(r) \/ BeginUpload(r)
             \/ CheckOriginal(r) \/ CompleteMultipart(r) \/ AbortMultipart(r) \/ HeadObject(r)
             \/ FailUpload(r) \/ MarkReady(r) \/ CompleteUpload(r) \/ EnqueueTranscode(r)
      PROVE  UploadInv'
  BY <1>2, LoadKeeps, UpsertKeeps, SweepKeeps, BeginKeeps, CheckOriginalKeeps,
     CompleteMultipartKeeps, AbortMultipartKeeps, HeadObjectKeeps, FailUploadKeeps,
     MarkReadyKeeps, CompleteUploadKeeps, EnqueueTranscodeKeeps
<1>3. ASSUME NEW c \in Client,
             Put(c) \/ PutFails(c) \/ Start(c) \/ GiveUp(c) \/ Recover(c)
      PROVE  UploadInv'
  BY <1>3, PutKeeps, PutFailsKeeps, StartKeeps, GiveUpKeeps, RecoverKeeps
<1>4. ASSUME NEW r \in requests, Die(r) PROVE UploadInv'
  BY <1>4, DieKeeps
<1> QED
  BY <1>1, <1>2, <1>3, <1>4 DEF Next, Handler, Transfer

\* The invariant says what the runs check.
LEMMA UploadInvSuffices == UploadInv => UploadsAreWhole
<1> SUFFICES ASSUME UploadInv PROVE UploadsAreWhole
  OBVIOUS
<1>1. TypeOK
  BY DEF UploadInv, WellTyped, AttemptsFit, OnItsPath, RequestSet, TypeOK
<1>2. IssuedIsFindable
  BY DEF UploadInv, WellTyped, OriginalFits, IssuedIsFindable, FindOriginal, Recorded
<1> QED
  BY <1>1, <1>2 DEF UploadInv, UploadsAreWhole

\* An issued upload can be found and completed, the transcode reads an object that is there,
\* and an upload that is done was received: whatever requests of other attempts, lost
\* answers, recoveries and dying requests do at the same time (upload.service.ts).
THEOREM UploadsStayWhole == BothSpec => []UploadsAreWhole
<1>1. BothInit => UploadInv
  BY UploadInit DEF BothInit
<1>2. UploadInv /\ [ContentNext \/ LinkNext]_allVars => UploadInv'
  <2>1. [ContentNext \/ LinkNext]_allVars => [Next]_vars
    BY DEF ContentNext, LinkNext, OnLink, allVars
  <2> QED
    BY <2>1, UploadNext
<1> QED
  BY <1>1, <1>2, UploadInvSuffices, PTL DEF BothSpec

-------------------------------------------------------------------------------
(* The uploads of a link: the invariant *)

Resided == {"awaiting_branch_review", "approved", "rejected"}

LinkPc == {"load", "claim", "insert", "release", "head", "accept", "fail", "original",
           "source", "decide", "enter", "enqueue"}

LinkRequestSet ==
  [op : {"create", "complete", "approve", "reject"}, by : Resident \union {"branch"},
   id : Link!Id, pc : LinkPc, seen : Link!ResidentUploadStatus, copy : Nat]

PageSet == [step : {"idle", "create", "put", "complete"}, id : 0 .. MaxIds, told : BOOLEAN]

LinkWellTyped ==
  /\ usedCount \in 0 .. MaxUploads /\ expired \in BOOLEAN
  /\ upload \in [Link!Id -> Link!ResidentUploadStatus]
  /\ contents \in [Link!Id -> Nat]
  /\ content \in [Link!Id -> {"none", "uploaded", "processing", "canceled"}]
  /\ original \in [Link!Id -> BOOLEAN]
  /\ stored \in [Link!Id -> {"none", "fits", "oversized"}]
  /\ added \subseteq Link!Id /\ unsent \subseteq Link!Id /\ overlapped \subseteq Link!Id
  /\ ids \in 0 .. MaxIds /\ reviews \in Nat /\ copies \in Nat /\ lostRequests \in Nat
  /\ page \in [Resident -> PageSet]
  /\ received \subseteq LinkRequestSet

\* The awaits of each handler (resident-links.service.ts, resident-reviews.service.ts).
OnLinkPath(r) ==
  /\ r.op = "create" => r.pc \in {"load", "claim", "insert", "release"}
  /\ r.op = "complete" => r.pc \in {"load", "head", "accept", "fail", "release", "original"}
  /\ r.op = "approve" => r.pc \in {"load", "source", "decide", "enter", "enqueue"}
  /\ r.op = "reject" => r.pc \in {"load", "decide"}
  /\ r.by = "branch" <=> r.op \in {"approve", "reject"}

\* Where a request is says what its upload is; unless completions overlap, a completion that
\* is being received has it pending, and the branch's decision stands once it was seen.
LinkFits(r) ==
  /\ OnLinkPath(r) /\ r.id <= ids
  /\ r.op = "create" => upload[r.id] = "none"
  /\ r.op = "complete" => upload[r.id] # "none"
  /\ r.pc = "accept" => stored[r.id] = "fits"
  /\ r.pc = "original" \/ r.by = "branch" => upload[r.id] \in Resided
  /\ r.id \notin overlapped =>
       /\ r.pc \in {"head", "fail", "accept"} => upload[r.id] = "pending"
       /\ r.op = "complete" /\ r.pc = "release" => upload[r.id] = "upload_failed"
       /\ r.by = "branch" /\ r.seen \in {"approved", "rejected"} => upload[r.id] = r.seen
       /\ r.pc \in {"enter", "enqueue"} => upload[r.id] = "approved"

Busy == {"head", "fail", "accept", "release"}

\* An upload is created once, and received by one completion at a time unless they overlap.
Alone(q, r) ==
  q.id = r.id /\ q # r =>
    /\ ~ (q.op = "create" /\ r.op = "create")
    /\ q.op = "complete" /\ r.op = "complete" /\ q.pc \in Busy /\ r.pc \in Busy =>
         r.id \in overlapped

AllAlone == \A q, r \in received : Alone(q, r)

\* A page that has not put its file yet is the only one at work on its upload, and what it
\* told its resident is true.
PageFits(p) ==
  /\ page[p].id <= ids
  /\ page[p].step \in {"create", "put"} =>
       /\ page[p].id \in Link!Id
       /\ \A r \in received : r.op = "complete" => r.id # page[p].id
  /\ page[p].step = "create" => upload[page[p].id] \in {"none", "pending"}
  /\ page[p].step = "put" => upload[page[p].id] = "pending"
  /\ page[p].told => page[p].id \in Link!Id /\ contents[page[p].id] # 0

PagesFit ==
  /\ \A p \in Resident : PageFits(p)
  /\ \A p, q \in Resident : page[p].id = page[q].id /\ page[p].id # 0 => p = q

\* The row of an upload, its content and its file agree.
ResidentFits(i) ==
  /\ i > ids => upload[i] = "none"
  /\ contents[i] = 0 <=> upload[i] \notin Resided
  /\ contents[i] = 0 <=> content[i] = "none"
  /\ upload[i] \in Resided => stored[i] = "fits"
  /\ i \in added => upload[i] \in Resided
  /\ content[i] = "processing" => i \in added
  /\ i \notin overlapped =>
       /\ contents[i] <= 1
       /\ upload[i] = "awaiting_branch_review" => content[i] = "uploaded"
       /\ upload[i] = "approved" => content[i] \in {"uploaded", "processing"}
       /\ upload[i] = "rejected" => content[i] = "canceled"
       /\ i \in added => upload[i] = "approved"

\* An approval is on its way to the queue, is there, or was lost.
CarriedOn(i) ==
  i \notin overlapped /\ upload[i] = "approved" =>
    \/ \E r \in received : r.id = i /\ r.pc \in {"enter", "enqueue"}
    \/ i \in added \/ i \in unsent \/ lostRequests > 0

\* The uploads that have a slot: those on record, and those whose request has claimed it or
\* has yet to give it back.
Owners ==
  {i \in Link!Id : upload[i] \in Link!Held
                     \/ \E r \in received : r.id = i /\ r.pc \in {"insert", "release"}}

SlotsOwned == overlapped = {} => Cardinality(Owners) <= usedCount

LinkInv ==
  /\ LinkWellTyped /\ AllAlone /\ PagesFit /\ SlotsOwned
  /\ \A r \in received : LinkFits(r)
  /\ \A i \in Link!Id : ResidentFits(i) /\ CarriedOn(i)

-------------------------------------------------------------------------------
(* What the helpers of the link do *)

\* A request that goes on keeps everything but its place; the branch's remembers the
\* decision it has found (Goto).
LEMMA LinkOnwards ==
  ASSUME LinkWellTyped, NEW r \in received, NEW pc \in LinkPc, Link!Goto(r, pc)
  PROVE  \E n \in LinkRequestSet :
           /\ received' = (received \ {r}) \union {n} /\ page' = page
           /\ n.op = r.op /\ n.by = r.by /\ n.id = r.id /\ n.copy = r.copy /\ n.pc = pc
           /\ n.seen = IF r.by = "branch" /\ r.pc = "load" THEN upload[r.id] ELSE r.seen
<1> DEFINE n == [r EXCEPT !.pc = pc,
                          !.seen = IF r.by = "branch" /\ r.pc = "load" THEN upload[r.id] ELSE @]
<1>1. r \in LinkRequestSet /\ upload[r.id] \in Link!ResidentUploadStatus
  BY DEF LinkWellTyped, LinkRequestSet
<1>2. n \in LinkRequestSet
  BY <1>1 DEF LinkRequestSet
<1>3. /\ n.op = r.op /\ n.by = r.by /\ n.id = r.id /\ n.copy = r.copy /\ n.pc = pc
      /\ n.seen = IF r.by = "branch" /\ r.pc = "load" THEN upload[r.id] ELSE r.seen
  BY <1>1 DEF LinkRequestSet
<1>4. received' = (received \ {r}) \union {n} /\ page' = page
  BY DEF Link!Goto
<1> QED
  BY <1>2, <1>3, <1>4

\* A page that hears an answer, or gives up, is idle, or goes on to put its file when it
\* heard that its upload was created (Continue).
PageMoves(p, ok, op, id) ==
  /\ page'[p].id = page[p].id
  /\ \/ page'[p] = page[p]
     \/ /\ page'[p].step = "idle"
        /\ page'[p].told => ok /\ op = "complete" /\ page[p].id = id
     \/ /\ page[p].step = "create" /\ page'[p].step = "put" /\ page'[p].told = page[p].told
        /\ ok /\ op = "create" /\ page[p].id = id

\* A page that is answered only goes on as PageMoves says, and the request is gone (Reply).
LEMMA LinkReplies ==
  ASSUME LinkWellTyped, NEW r \in received, NEW ok \in BOOLEAN, Link!Reply(r, ok)
  PROVE  /\ received' = received \ {r} /\ page' \in [Resident -> PageSet]
         /\ \A p \in Resident : PageMoves(p, ok, r.op, r.id)
         /\ r.by \notin Resident => page' = page
<1>1. page \in [Resident -> PageSet] /\ r \in LinkRequestSet
  BY DEF LinkWellTyped
<1>2. CASE /\ r.by \in Resident /\ page[r.by].step = r.op /\ page[r.by].id = r.id
           /\ Link!Continue(r.by, ok, received \ {r})
  <2> DEFINE new == IF ok /\ page[r.by].step = "create" THEN [page[r.by] EXCEPT !.step = "put"]
                    ELSE [page[r.by] EXCEPT !.step = "idle", !.told = ok]
  <2>1. /\ new \in PageSet /\ new.id = page[r.by].id
        /\ \/ new.step = "idle" /\ (new.told => ok /\ page[r.by].step # "create")
           \/ ok /\ page[r.by].step = "create" /\ new.step = "put" /\ new.told = page[r.by].told
    BY <1>1, <1>2 DEF PageSet
  <2>2. page' = [page EXCEPT ![r.by] = new] /\ received' = received \ {r}
    BY <1>2 DEF Link!Continue
  <2> HIDE DEF new
  <2>3. page[r.by].step # "create" => r.op = "complete"
    BY <1>1, <1>2 DEF PageSet, LinkRequestSet
  <2>4. page' \in [Resident -> PageSet]
    BY <1>1, <1>2, <2>1, <2>2
  <2>5. ASSUME NEW p \in Resident PROVE PageMoves(p, ok, r.op, r.id)
    BY <1>1, <1>2, <2>1, <2>2, <2>3 DEF PageMoves
  <2> QED
    BY <1>2, <2>2, <2>4, <2>5
<1>3. CASE received' = received \ {r} /\ page' = page
  BY <1>1, <1>3 DEF PageMoves
<1> QED
  BY <1>2, <1>3 DEF Link!Reply

\* The page gives up.
LEMMA LinkGivesUp ==
  ASSUME LinkWellTyped, NEW p \in Resident, Link!Continue(p, FALSE, received)
  PROVE  /\ received' = received /\ page' \in [Resident -> PageSet]
         /\ \A q \in Resident : PageMoves(q, FALSE, "complete", 0)
<1>1. page \in [Resident -> PageSet]
  BY DEF LinkWellTyped
<1> DEFINE new == [page[p] EXCEPT !.step = "idle", !.told = FALSE]
<1>2. new \in PageSet /\ new.id = page[p].id /\ new.step = "idle" /\ new.told = FALSE
  BY <1>1 DEF PageSet
<1>3. page' = [page EXCEPT ![p] = new] /\ received' = received
  BY DEF Link!Continue
<1> HIDE DEF new
<1> QED
  BY <1>1, <1>2, <1>3 DEF PageMoves

\* Requests that leave disturb nobody.
LEMMA AloneShrinks ==
  ASSUME AllAlone, received' \subseteq received, overlapped \subseteq overlapped'
  PROVE  AllAlone'
BY DEF AllAlone, Alone

\* A request that goes on disturbs nobody unless a completion becomes busy by it.
LEMMA AloneGoesOn ==
  ASSUME AllAlone, NEW r \in received, NEW n, received' = (received \ {r}) \union {n},
         n.op = r.op, n.id = r.id, overlapped \subseteq overlapped',
         n.op = "complete" /\ n.pc \in Busy => r.pc \in Busy
  PROVE  AllAlone'
<1>1. ASSUME NEW q \in received \ {r} PROVE Alone(q, n)' /\ Alone(n, q)'
  <2>1. Alone(q, r) /\ Alone(r, q) /\ q # r
    BY DEF AllAlone
  <2> QED
    BY <2>1 DEF Alone
<1>2. Alone(n, n)'
  BY DEF Alone
<1>3. ASSUME NEW p \in received \ {r}, NEW q \in received \ {r} PROVE Alone(p, q)'
  BY DEF AllAlone, Alone
<1>4. ASSUME NEW p \in received', NEW q \in received' PROVE Alone(p, q)'
  <2>1. (p \in received \ {r} \/ p = n) /\ (q \in received \ {r} \/ q = n)
    OBVIOUS
  <2> QED
    BY <1>1, <1>2, <1>3, <2>1
<1> QED
  BY <1>4 DEF AllAlone

\* Slots are owned by finitely many uploads.
LEMMA OwnersAreFinite == IsFiniteSet(Owners) /\ IsFiniteSet(Owners')
<1>1. IsFiniteSet(Link!Id)
  BY LinkAssumption, FS_Interval DEF Link!Id
<1>2. Owners \in SUBSET Link!Id
  BY DEF Owners
<1>3. Owners' \in SUBSET Link!Id
  BY DEF Owners
<1> QED
  BY <1>1, <1>2, <1>3, FS_Subset

\* Where no upload comes to own a slot, the counter still covers them.
LEMMA SlotsStay ==
  ASSUME LinkWellTyped, SlotsOwned, overlapped \subseteq overlapped',
         overlapped = {} => Owners' \subseteq Owners, usedCount' = usedCount
  PROVE  SlotsOwned'
<1>1. SUFFICES ASSUME overlapped = {} PROVE Cardinality(Owners') <= usedCount
  BY DEF SlotsOwned
<1>2. Cardinality(Owners) <= usedCount /\ usedCount \in Nat
  BY <1>1 DEF SlotsOwned, LinkWellTyped
<1>3. /\ Cardinality(Owners') <= Cardinality(Owners)
      /\ Cardinality(Owners) \in Nat /\ Cardinality(Owners') \in Nat
  BY <1>1, OwnersAreFinite, FS_Subset, FS_CardinalityType
<1> QED
  BY <1>2, <1>3

\* What pages hear keeps what they hold: the rows only go on where a completion or a creation
\* is answered.
LEMMA PagesStay ==
  ASSUME LinkWellTyped, PagesFit, NEW ok \in BOOLEAN, NEW op, NEW id,
         \A p \in Resident : PageMoves(p, ok, op, id),
         ids' = ids,
         \A i \in Link!Id : contents[i] # 0 => contents'[i] # 0,
         \A q \in received' :
           q.op = "complete" => \E r \in received : r.op = "complete" /\ r.id = q.id,
         \A i \in Link!Id : (\A r \in received : r.op = "complete" => r.id # i) =>
           /\ upload[i] = "none" => upload'[i] \in {"none", "pending"}
           /\ upload[i] = "pending" => upload'[i] = "pending",
         ok /\ op = "create" /\ id \in Link!Id => upload'[id] = "pending",
         ok /\ op = "complete" => id \in Link!Id /\ contents'[id] # 0
  PROVE  PagesFit'
<1>1. ASSUME NEW p \in Resident PROVE PageFits(p)' /\ page'[p].id = page[p].id
  <2>1. PageFits(p) /\ PageMoves(p, ok, op, id) /\ page[p].id \in 0 .. MaxIds
    BY DEF PagesFit, LinkWellTyped, PageSet
  <2>2. page'[p].id = page[p].id
    BY <2>1 DEF PageMoves
  <2>3. CASE page'[p] = page[p]
    BY <2>1, <2>3 DEF PageFits
  <2>4. CASE /\ page'[p].step = "idle"
             /\ page'[p].told => ok /\ op = "complete" /\ page[p].id = id
    BY <2>1, <2>2, <2>4 DEF PageFits
  <2>5. CASE /\ page[p].step = "create" /\ page'[p].step = "put" /\ page'[p].told = page[p].told
             /\ ok /\ op = "create" /\ page[p].id = id
    BY <2>1, <2>2, <2>5 DEF PageFits
  <2> QED
    BY <2>1, <2>2, <2>3, <2>4, <2>5 DEF PageMoves
<1> QED
  BY <1>1 DEF PagesFit

\* A step that leaves the rows of the uploads alone, and whose new requests fit, keeps the
\* invariant.
LEMMA LinkQuiet ==
  ASSUME LinkInv,
         UNCHANGED <<usedCount, upload, contents, content, stored, added, unsent, overlapped, ids>>,
         expired' \in BOOLEAN, original' \in [Link!Id -> BOOLEAN],
         reviews' \in Nat, copies' \in Nat, lostRequests' \in Nat, lostRequests' >= lostRequests,
         page' \in [Resident -> PageSet], AllAlone', PagesFit',
         \A q \in received' :
           \/ q \in received
           \/ q \in LinkRequestSet /\ LinkFits(q) /\ (q.pc \in {"insert", "release"} => q.id \in Owners),
         \A r \in received : r.pc \in {"enter", "enqueue"} =>
           \/ \E q \in received' : q.id = r.id /\ q.pc \in {"enter", "enqueue"}
           \/ r.id \in added \/ lostRequests' > 0
           \/ r.id \in overlapped
  PROVE  LinkInv'
<1>1. LinkWellTyped /\ SlotsOwned
  BY DEF LinkInv
<1>2. LinkWellTyped'
  <2>1. received' \subseteq LinkRequestSet
    BY <1>1 DEF LinkWellTyped
  <2> QED
    BY <1>1, <2>1 DEF LinkWellTyped
<1>3. \A q \in received' : LinkFits(q)'
  BY DEF LinkInv, LinkFits
<1>4. \A i \in Link!Id : ResidentFits(i)'
  BY DEF LinkInv, ResidentFits
<1>5. ASSUME NEW i \in Link!Id PROVE CarriedOn(i)'
  <2>1. CarriedOn(i) /\ lostRequests \in Nat
    BY DEF LinkInv, LinkWellTyped
  <2> QED
    BY <2>1 DEF CarriedOn
<1>6. Owners' \subseteq Owners
  <2> SUFFICES ASSUME NEW i \in Owners' PROVE i \in Owners
    OBVIOUS
  <2>1. i \in Link!Id /\ (upload[i] \in Link!Held
                           \/ \E r \in received' : r.id = i /\ r.pc \in {"insert", "release"})
    BY DEF Owners
  <2>2. ASSUME NEW r \in received', r.id = i, r.pc \in {"insert", "release"} PROVE i \in Owners
    BY <2>1, <2>2 DEF Owners
  <2>3. upload[i] \in Link!Held => i \in Owners
    BY <2>1 DEF Owners
  <2> QED
    BY <2>1, <2>2, <2>3
<1>7. SlotsOwned'
  BY <1>1, <1>6, SlotsStay
<1> QED
  BY <1>2, <1>3, <1>4, <1>5, <1>7 DEF LinkInv

\* A request that is where its operation can be is its operation's.
LEMMA LinkPaths ==
  ASSUME LinkInv, NEW r \in received
  PROVE  /\ r \in LinkRequestSet /\ LinkFits(r) /\ r.id \in Link!Id
         /\ ResidentFits(r.id) /\ CarriedOn(r.id)
         /\ r.pc \in {"claim", "insert"} => r.op = "create"
         /\ r.pc \in {"head", "accept", "fail", "original"} => r.op = "complete"
         /\ r.pc = "release" => r.op \in {"create", "complete"}
         /\ r.pc \in {"source", "enter", "enqueue"} => r.op = "approve"
         /\ r.pc = "decide" => r.op \in {"approve", "reject"}
         /\ r.op \in {"approve", "reject"} <=> r.by = "branch"
         /\ r.by = "branch" => r.by \notin Resident
<1>1. r \in LinkRequestSet /\ LinkFits(r) /\ r.id \in Link!Id
  BY DEF LinkInv, LinkWellTyped, LinkRequestSet
<1>2. ResidentFits(r.id) /\ CarriedOn(r.id)
  BY <1>1 DEF LinkInv
<1> QED
  BY <1>1, <1>2, LinkAssumption DEF LinkFits, OnLinkPath, LinkRequestSet

\* What most steps of a link leave alone.
linkRows == <<usedCount, upload, contents, content, stored, added, unsent, overlapped, ids>>

\* A request that goes on and fits where it goes keeps it.
LEMMA LinkQuietGoto ==
  ASSUME LinkInv, NEW r \in received, NEW n \in LinkRequestSet, UNCHANGED linkRows,
         expired' \in BOOLEAN, original' \in [Link!Id -> BOOLEAN],
         UNCHANGED <<reviews, copies, lostRequests, page>>,
         received' = (received \ {r}) \union {n}, n.op = r.op, n.id = r.id, LinkFits(n),
         n.op = "complete" /\ n.pc \in Busy => r.pc \in Busy,
         n.pc \in {"insert", "release"} => n.id \in Owners,
         r.pc \in {"enter", "enqueue"} => n.pc \in {"enter", "enqueue"}
  PROVE  LinkInv'
<1>1. LinkWellTyped /\ AllAlone /\ PagesFit
  BY DEF LinkInv
<1>2. UNCHANGED <<usedCount, upload, contents, content, stored, added, unsent, overlapped, ids>>
  BY DEF linkRows
<1>3. AllAlone'
  BY <1>1, <1>2, AloneGoesOn
<1>4. PagesFit'
  <2>1. \A p \in Resident : PageMoves(p, FALSE, "complete", 0)
    BY DEF PageMoves
  <2>2. \A q \in received' : q.op = "complete" => \E s \in received : s.op = "complete" /\ s.id = q.id
    OBVIOUS
  <2> QED
    BY <1>1, <1>2, <2>1, <2>2, PagesStay
<1>5. \A q \in received' :
        \/ q \in received
        \/ q \in LinkRequestSet /\ LinkFits(q) /\ (q.pc \in {"insert", "release"} => q.id \in Owners)
  OBVIOUS
<1>6. \A s \in received : s.pc \in {"enter", "enqueue"} =>
        \E q \in received' : q.id = s.id /\ q.pc \in {"enter", "enqueue"}
  OBVIOUS
<1>7. /\ reviews' \in Nat /\ copies' \in Nat /\ lostRequests' \in Nat /\ lostRequests' >= lostRequests
      /\ page' \in [Resident -> PageSet]
  BY <1>1 DEF LinkWellTyped
<1> QED
  BY <1>2, <1>3, <1>4, <1>5, <1>6, <1>7, LinkQuiet

\* A request that is answered is only gone.
LEMMA LinkQuietReply ==
  ASSUME LinkInv, NEW r \in received, NEW ok \in BOOLEAN, Link!Reply(r, ok), UNCHANGED linkRows,
         expired' \in BOOLEAN, original' \in [Link!Id -> BOOLEAN],
         UNCHANGED <<reviews, copies, lostRequests>>,
         ok => r.op = "complete" /\ contents[r.id] # 0,
         r.pc \in {"enter", "enqueue"} => r.id \in added \/ r.id \in overlapped
  PROVE  LinkInv'
<1>1. LinkWellTyped /\ AllAlone /\ PagesFit /\ r.id \in Link!Id
  BY LinkPaths DEF LinkInv
<1>2. UNCHANGED <<usedCount, upload, contents, content, stored, added, unsent, overlapped, ids>>
  BY DEF linkRows
<1>3. /\ received' = received \ {r} /\ page' \in [Resident -> PageSet]
      /\ \A p \in Resident : PageMoves(p, ok, r.op, r.id)
  BY <1>1, LinkReplies
<1>4. AllAlone'
  BY <1>1, <1>2, <1>3, AloneShrinks
<1>5. PagesFit'
  <2>1. \A q \in received' : q.op = "complete" => \E s \in received : s.op = "complete" /\ s.id = q.id
    BY <1>3
  <2> QED
    BY <1>1, <1>2, <1>3, <2>1, PagesStay
<1>6. \A s \in received : s.pc \in {"enter", "enqueue"} =>
        \/ \E q \in received' : q.id = s.id /\ q.pc \in {"enter", "enqueue"}
        \/ s.id \in added \/ s.id \in overlapped
  BY <1>3
<1>7. /\ reviews' \in Nat /\ copies' \in Nat /\ lostRequests' \in Nat /\ lostRequests' >= lostRequests
  BY <1>1 DEF LinkWellTyped
<1> QED
  BY <1>2, <1>3, <1>4, <1>5, <1>6, <1>7, LinkQuiet

-------------------------------------------------------------------------------
(* The steps of the link that leave its rows alone *)

\* createUpload looks at the link before it claims a slot.
LEMMA LoadLinkKeeps == ASSUME LinkInv, NEW r \in received, Link!LoadLink(r) PROVE LinkInv'
<1>1. LinkWellTyped /\ r \in LinkRequestSet /\ LinkFits(r)
  BY LinkPaths DEF LinkInv
<1>2. /\ UNCHANGED linkRows /\ UNCHANGED <<reviews, copies, lostRequests, expired, original>>
      /\ r.op = "create" /\ r.pc = "load"
  BY DEF Link!LoadLink, Link!link, Link!rows, Link!counters, linkRows
<1>3. expired' \in BOOLEAN /\ original' \in [Link!Id -> BOOLEAN]
  BY <1>1, <1>2 DEF LinkWellTyped
<1>4. CASE Link!Reply(r, FALSE)
  BY <1>2, <1>3, <1>4, LinkQuietReply
<1>5. CASE Link!Goto(r, "claim")
  <2>1. PICK n \in LinkRequestSet :
           /\ received' = (received \ {r}) \union {n} /\ page' = page
           /\ n.op = r.op /\ n.by = r.by /\ n.id = r.id /\ n.copy = r.copy /\ n.pc = "claim"
    BY <1>1, <1>5, LinkOnwards DEF LinkPc
  <2>2. LinkFits(n)
    BY <1>1, <1>2, <2>1 DEF LinkFits, OnLinkPath
  <2> QED
    BY <1>2, <1>3, <2>1, <2>2, LinkQuietGoto
<1> QED
  BY <1>4, <1>5 DEF Link!LoadLink

\* The file must be there and must fit before the upload is accepted (completeUpload).
LEMMA LinkHeadKeeps == ASSUME LinkInv, NEW r \in received, Link!HeadObject(r) PROVE LinkInv'
<1>1. LinkWellTyped /\ r \in LinkRequestSet /\ LinkFits(r)
  BY LinkPaths DEF LinkInv
<1>2. /\ UNCHANGED linkRows /\ UNCHANGED <<reviews, copies, lostRequests, expired, original>>
      /\ r.op = "complete" /\ r.pc = "head"
  BY LinkPaths DEF Link!HeadObject, Link!link, Link!rows, Link!counters, linkRows
<1>3. expired' \in BOOLEAN /\ original' \in [Link!Id -> BOOLEAN]
  BY <1>1, <1>2 DEF LinkWellTyped
<1>4. PICK pc \in {"accept", "fail"} : Link!Goto(r, pc) /\ (pc = "accept" => stored[r.id] = "fits")
  BY DEF Link!HeadObject
<1>5. PICK n \in LinkRequestSet :
         /\ received' = (received \ {r}) \union {n} /\ page' = page
         /\ n.op = r.op /\ n.by = r.by /\ n.id = r.id /\ n.copy = r.copy /\ n.pc = pc
  BY <1>1, <1>4, LinkOnwards DEF LinkPc
<1>6. LinkFits(n)
  BY <1>1, <1>2, <1>4, <1>5 DEF LinkFits, OnLinkPath
<1> QED
  BY <1>2, <1>3, <1>4, <1>5, <1>6, LinkQuietGoto DEF Busy

\* The original's row comes after the content's (ensureOriginalAsset).
LEMMA EnsureOriginalKeeps ==
  ASSUME LinkInv, NEW r \in received, Link!EnsureOriginal(r) PROVE LinkInv'
<1>1. /\ LinkWellTyped /\ r \in LinkRequestSet /\ LinkFits(r) /\ r.id \in Link!Id
      /\ ResidentFits(r.id)
  BY LinkPaths DEF LinkInv
<1>2. /\ UNCHANGED linkRows /\ UNCHANGED <<reviews, copies, lostRequests, expired>>
      /\ r.op = "complete" /\ r.pc = "original" /\ Link!Reply(r, TRUE)
  BY LinkPaths DEF Link!EnsureOriginal, Link!link, Link!counters, linkRows
<1>3. expired' \in BOOLEAN /\ original' \in [Link!Id -> BOOLEAN]
  BY <1>1, <1>2 DEF LinkWellTyped, Link!EnsureOriginal
<1>4. contents[r.id] # 0
  BY <1>1, <1>2 DEF LinkFits, ResidentFits
<1> QED
  BY <1>2, <1>3, <1>4, LinkQuietReply

\* The branch's request remembers the decision it has found (loadForReview).
LEMMA LoadForReviewKeeps ==
  ASSUME LinkInv, NEW r \in received, Link!LoadForReview(r) PROVE LinkInv'
<1>1. LinkWellTyped /\ r \in LinkRequestSet /\ LinkFits(r)
  BY LinkPaths DEF LinkInv
<1>2. /\ UNCHANGED linkRows /\ UNCHANGED <<reviews, copies, lostRequests, expired, original>>
      /\ r.by = "branch" /\ r.op \in {"approve", "reject"} /\ r.pc = "load"
  BY LinkPaths DEF Link!LoadForReview, Link!link, Link!rows, Link!counters, linkRows
<1>3. expired' \in BOOLEAN /\ original' \in [Link!Id -> BOOLEAN]
  BY <1>1, <1>2 DEF LinkWellTyped
<1>4. PICK pc \in {"source", "decide"} : Link!Goto(r, pc) /\ (pc = "source" => r.op = "approve")
  BY DEF Link!LoadForReview
<1>5. PICK n \in LinkRequestSet :
         /\ received' = (received \ {r}) \union {n} /\ page' = page
         /\ n.op = r.op /\ n.by = r.by /\ n.id = r.id /\ n.copy = r.copy /\ n.pc = pc
         /\ n.seen = IF r.by = "branch" /\ r.pc = "load" THEN upload[r.id] ELSE r.seen
  BY <1>1, <1>4, LinkOnwards DEF LinkPc
<1>6. LinkFits(n)
  BY <1>1, <1>2, <1>4, <1>5 DEF LinkFits, OnLinkPath
<1> QED
  BY <1>2, <1>3, <1>4, <1>5, <1>6, LinkQuietGoto

\* An approval needs the original it will transcode (requireOriginal).
LEMMA RequireSourceKeeps ==
  ASSUME LinkInv, NEW r \in received, Link!RequireSource(r) PROVE LinkInv'
<1>1. LinkWellTyped /\ r \in LinkRequestSet /\ LinkFits(r)
  BY LinkPaths DEF LinkInv
<1>2. /\ UNCHANGED linkRows /\ UNCHANGED <<reviews, copies, lostRequests, expired, original>>
      /\ r.op = "approve" /\ r.pc = "source"
  BY LinkPaths DEF Link!RequireSource, Link!link, Link!rows, Link!counters, linkRows
<1>3. expired' \in BOOLEAN /\ original' \in [Link!Id -> BOOLEAN]
  BY <1>1, <1>2 DEF LinkWellTyped
<1>4. CASE Link!Reply(r, FALSE)
  BY <1>2, <1>3, <1>4, LinkQuietReply
<1>5. CASE Link!Goto(r, "decide")
  <2>1. PICK n \in LinkRequestSet :
           /\ received' = (received \ {r}) \union {n} /\ page' = page
           /\ n.op = r.op /\ n.by = r.by /\ n.id = r.id /\ n.copy = r.copy /\ n.pc = "decide"
           /\ n.seen = IF r.by = "branch" /\ r.pc = "load" THEN upload[r.id] ELSE r.seen
    BY <1>1, <1>5, LinkOnwards DEF LinkPc
  <2>2. LinkFits(n)
    BY <1>1, <1>2, <2>1 DEF LinkFits, OnLinkPath
  <2> QED
    BY <1>2, <1>3, <2>1, <2>2, LinkQuietGoto
<1> QED
  BY <1>4, <1>5 DEF Link!RequireSource

\* Only an approved upload whose content has not moved on enters; one that has moved on has
\* its transcode (enterPipeline).
LEMMA EnterPipelineKeeps ==
  ASSUME LinkInv, NEW r \in received, Link!EnterPipeline(r) PROVE LinkInv'
<1>1. /\ LinkWellTyped /\ r \in LinkRequestSet /\ LinkFits(r) /\ r.id \in Link!Id
      /\ ResidentFits(r.id)
  BY LinkPaths DEF LinkInv
<1>2. /\ UNCHANGED linkRows /\ UNCHANGED <<reviews, copies, lostRequests, expired, original>>
      /\ r.op = "approve" /\ r.pc = "enter"
  BY LinkPaths DEF Link!EnterPipeline, Link!link, Link!rows, Link!counters, linkRows
<1>3. expired' \in BOOLEAN /\ original' \in [Link!Id -> BOOLEAN]
  BY <1>1, <1>2 DEF LinkWellTyped
<1>4. CASE Link!Reply(r, FALSE) /\ ~ (upload[r.id] = "approved" /\ content[r.id] = "uploaded")
  <2>1. r.id \in overlapped \/ r.id \in added
    BY <1>1, <1>2, <1>4 DEF LinkFits, ResidentFits
  <2> QED
    BY <1>2, <1>3, <1>4, <2>1, LinkQuietReply
<1>5. CASE Link!Goto(r, "enqueue")
  <2>1. PICK n \in LinkRequestSet :
           /\ received' = (received \ {r}) \union {n} /\ page' = page
           /\ n.op = r.op /\ n.by = r.by /\ n.id = r.id /\ n.copy = r.copy /\ n.pc = "enqueue"
           /\ n.seen = IF r.by = "branch" /\ r.pc = "load" THEN upload[r.id] ELSE r.seen
    BY <1>1, <1>5, LinkOnwards DEF LinkPc
  <2>2. LinkFits(n)
    BY <1>1, <1>2, <2>1 DEF LinkFits, OnLinkPath
  <2> QED
    BY <1>2, <1>3, <2>1, <2>2, LinkQuietGoto
<1> QED
  BY <1>4, <1>5 DEF Link!EnterPipeline

\* A page that gives up leaves its upload as it is.
LEMMA LinkGiveUpKeeps == ASSUME LinkInv, NEW p \in Resident, Link!GiveUp(p) PROVE LinkInv'
<1>1. LinkWellTyped /\ PagesFit /\ AllAlone
  BY DEF LinkInv
<1>2. /\ received' = received /\ page' \in [Resident -> PageSet]
      /\ \A q \in Resident : PageMoves(q, FALSE, "complete", 0)
  BY <1>1, LinkGivesUp DEF Link!GiveUp
<1>3. UNCHANGED <<usedCount, upload, contents, content, stored, added, unsent, overlapped, ids,
                  reviews, copies, lostRequests, expired, original>>
  BY DEF Link!GiveUp, Link!link, Link!rows, Link!counters
<1>4. AllAlone'
  BY <1>1, <1>2, <1>3, AloneShrinks
<1>5. \A q \in received' : q.op = "complete" => \E s \in received : s.op = "complete" /\ s.id = q.id
  BY <1>2
<1>6. PagesFit'
  BY <1>1, <1>2, <1>3, <1>5, PagesStay
<1>7. \A s \in received : s.pc \in {"enter", "enqueue"} =>
        \E q \in received' : q.id = s.id /\ q.pc \in {"enter", "enqueue"}
  BY <1>2
<1> QED
  BY <1>1, <1>2, <1>3, <1>4, <1>6, <1>7, LinkQuiet DEF LinkWellTyped

\* A link that expires leaves its uploads as they are.
LEMMA ExpireKeeps == ASSUME LinkInv, Link!Expire PROVE LinkInv'
<1>1. LinkWellTyped /\ PagesFit /\ AllAlone
  BY DEF LinkInv
<1>2. /\ UNCHANGED <<usedCount, upload, contents, content, stored, added, unsent, overlapped, ids,
                     reviews, copies, lostRequests, original, page, received>>
      /\ expired' \in BOOLEAN
  BY DEF Link!Expire, Link!rows, Link!counters
<1>3. AllAlone'
  BY <1>1, <1>2, AloneShrinks
<1>4. \A p \in Resident : PageMoves(p, FALSE, "complete", 0)
  BY <1>2 DEF PageMoves
<1>5. PagesFit'
  BY <1>1, <1>2, <1>4, PagesStay
<1> QED
  BY <1>1, <1>2, <1>3, <1>5, LinkQuiet DEF LinkWellTyped

\* A request that is lost is a death, and that is on record.
LEMMA LinkDieKeeps == ASSUME LinkInv, NEW r \in received, Link!Die(r) PROVE LinkInv'
<1>1. LinkWellTyped /\ PagesFit /\ AllAlone
  BY DEF LinkInv
<1>2. /\ UNCHANGED <<usedCount, upload, contents, content, stored, added, unsent, overlapped, ids,
                     reviews, copies, original, page, expired>>
      /\ lostRequests' = lostRequests + 1 /\ received' = received \ {r}
  BY DEF Link!Die, Link!link, Link!rows
<1>3. AllAlone'
  BY <1>1, <1>2, AloneShrinks
<1>4. \A p \in Resident : PageMoves(p, FALSE, "complete", 0)
  BY <1>2 DEF PageMoves
<1>5. PagesFit'
  BY <1>1, <1>2, <1>4, PagesStay
<1>6. lostRequests' \in Nat /\ lostRequests' >= lostRequests /\ lostRequests' > 0
  BY <1>1, <1>2 DEF LinkWellTyped
<1> QED
  BY <1>1, <1>2, <1>3, <1>5, <1>6, LinkQuiet DEF LinkWellTyped

\* A request that is sent, and fits, keeps the invariant when no page is put back by it.
LEMMA LinkAsks ==
  ASSUME LinkInv, NEW n \in LinkRequestSet, UNCHANGED linkRows,
         UNCHANGED <<expired, original, lostRequests, page>>, reviews' \in Nat, copies' \in Nat,
         received' = received \union {n}, LinkFits(n), n.pc = "load",
         n.op = "create" => FALSE,
         n.op = "complete" => \E r \in received : r.op = "complete" /\ r.id = n.id
  PROVE  LinkInv'
<1>1. LinkWellTyped /\ PagesFit /\ AllAlone
  BY DEF LinkInv
<1>2. UNCHANGED <<usedCount, upload, contents, content, stored, added, unsent, overlapped, ids>>
  BY DEF linkRows
<1>3. \A q \in received' : q \in received \/ q = n
  OBVIOUS
<1>4. AllAlone'
  <2> SUFFICES ASSUME NEW q \in received', NEW s \in received' PROVE Alone(q, s)'
    BY DEF AllAlone
  <2>1. CASE q \in received /\ s \in received
    BY <1>1, <1>2, <2>1 DEF AllAlone, Alone
  <2>2. CASE q = n \/ s = n
    BY <2>2 DEF Alone, Busy
  <2> QED
    BY <1>3, <2>1, <2>2
<1>5. \A p \in Resident : PageMoves(p, FALSE, "complete", 0)
  BY DEF PageMoves
<1>6. \A q \in received' : q.op = "complete" => \E s \in received : s.op = "complete" /\ s.id = q.id
  BY <1>3
<1>7. PagesFit'
  BY <1>1, <1>2, <1>5, <1>6, PagesStay
<1>8. \A q \in received' :
        \/ q \in received
        \/ q \in LinkRequestSet /\ LinkFits(q) /\ (q.pc \in {"insert", "release"} => q.id \in Owners)
  BY <1>3
<1>9. \A s \in received : s.pc \in {"enter", "enqueue"} =>
        \E q \in received' : q.id = s.id /\ q.pc \in {"enter", "enqueue"}
  OBVIOUS
<1> QED
  BY <1>1, <1>2, <1>4, <1>7, <1>8, <1>9, LinkQuiet DEF LinkWellTyped

\* The network's copy of a completion is as good as the first.
LEMMA RedeliverKeeps == ASSUME LinkInv, NEW r \in received, Link!Redeliver(r) PROVE LinkInv'
<1>1. LinkWellTyped /\ r \in LinkRequestSet /\ LinkFits(r)
  BY LinkPaths DEF LinkInv
<1>2. /\ UNCHANGED linkRows /\ UNCHANGED <<reviews, lostRequests, expired, original, page>>
      /\ r.op = "complete" /\ r.pc = "load" /\ copies' \in Nat
  BY <1>1 DEF Link!Redeliver, Link!link, Link!rows, linkRows, LinkWellTyped
<1>3. PICK n \in LinkRequestSet :
         /\ received' = received \union {n} /\ n.op = r.op /\ n.by = r.by /\ n.id = r.id
         /\ n.pc = r.pc /\ n.seen = r.seen
  <2> DEFINE n == [r EXCEPT !.copy = copies']
  <2>1. n \in LinkRequestSet /\ n.op = r.op /\ n.by = r.by /\ n.id = r.id /\ n.pc = r.pc
        /\ n.seen = r.seen
    BY <1>1, <1>2 DEF LinkRequestSet
  <2>2. received' = received \union {n}
    BY DEF Link!Redeliver
  <2> HIDE DEF n
  <2> QED
    BY <2>1, <2>2
<1>4. LinkFits(n)
  BY <1>1, <1>2, <1>3 DEF LinkFits, OnLinkPath
<1> QED
  BY <1>1, <1>2, <1>3, <1>4, LinkAsks DEF LinkWellTyped

\* The branch decides about what waits for it.
LEMMA ReviewKeeps ==
  ASSUME LinkInv, NEW op \in {"approve", "reject"}, NEW i \in Link!Id, Link!Review(op, i)
  PROVE  LinkInv'
<1>1. LinkWellTyped /\ ResidentFits(i)
  BY DEF LinkInv
<1>2. /\ UNCHANGED linkRows /\ UNCHANGED <<copies, lostRequests, expired, original, page>>
      /\ upload[i] = "awaiting_branch_review" /\ reviews' \in Nat /\ reviews \in Nat
  BY <1>1 DEF Link!Review, Link!link, Link!rows, linkRows, LinkWellTyped
<1>3. PICK n \in LinkRequestSet :
         /\ received' = received \union {n} /\ n.op = op /\ n.by = "branch" /\ n.id = i
         /\ n.pc = "load" /\ n.seen = "none"
  <2> DEFINE n == [Link!Ask("branch", op, i) EXCEPT !.copy = reviews]
  <2>1. n \in LinkRequestSet /\ n.op = op /\ n.by = "branch" /\ n.id = i /\ n.pc = "load"
        /\ n.seen = "none"
    BY <1>2 DEF LinkRequestSet, Link!Ask, LinkPc, Link!ResidentUploadStatus
  <2>2. received' = received \union {n}
    BY DEF Link!Review
  <2> HIDE DEF n
  <2> QED
    BY <2>1, <2>2
<1>4. i <= ids
  BY <1>1, <1>2 DEF ResidentFits, LinkWellTyped, Link!Id
<1>5. LinkFits(n)
  BY <1>2, <1>3, <1>4 DEF LinkFits, OnLinkPath, Resided
<1> QED
  BY <1>1, <1>2, <1>3, <1>5, LinkAsks DEF LinkWellTyped

-------------------------------------------------------------------------------
(* The steps of the link that change its rows *)

\* A slot is claimed by one conditional update, and the request that took it owns it.
LEMMA ClaimKeeps == ASSUME LinkInv, NEW r \in received, Link!Claim(r) PROVE LinkInv'
<1>1. /\ LinkWellTyped /\ AllAlone /\ PagesFit /\ SlotsOwned
      /\ r \in LinkRequestSet /\ LinkFits(r) /\ r.id \in Link!Id
  BY LinkPaths DEF LinkInv
<1>2. /\ UNCHANGED <<upload, contents, content, stored, added, unsent, overlapped, ids, reviews,
                     copies, lostRequests, expired, original>>
      /\ r.op = "create" /\ r.pc = "claim"
  BY LinkPaths DEF Link!Claim, Link!rows, Link!counters
<1>3. CASE Link!Reply(r, FALSE) /\ usedCount' = usedCount
  <2>1. UNCHANGED linkRows /\ expired' \in BOOLEAN /\ original' \in [Link!Id -> BOOLEAN]
    BY <1>1, <1>2, <1>3 DEF linkRows, LinkWellTyped
  <2> QED
    BY <1>2, <1>3, <2>1, LinkQuietReply
<1>4. CASE usedCount < MaxUploads /\ usedCount' = usedCount + 1 /\ Link!Goto(r, "insert")
  <2>1. PICK n \in LinkRequestSet :
           /\ received' = (received \ {r}) \union {n} /\ page' = page
           /\ n.op = r.op /\ n.by = r.by /\ n.id = r.id /\ n.copy = r.copy /\ n.pc = "insert"
    BY <1>1, <1>4, LinkOnwards DEF LinkPc
  <2>2. \A q \in received' : q \in received \/ q = n
    BY <2>1
  <2>3. LinkWellTyped'
    <3>1. usedCount' \in 0 .. MaxUploads
      BY <1>1, <1>4, LinkAssumption DEF LinkWellTyped
    <3>2. received' \subseteq LinkRequestSet
      BY <1>1, <2>1 DEF LinkWellTyped
    <3> QED
      BY <1>1, <1>2, <2>1, <3>1, <3>2 DEF LinkWellTyped
  <2>4. AllAlone'
    BY <1>1, <1>2, <2>1, AloneGoesOn
  <2>5. PagesFit'
    <3>1. \A p \in Resident : PageMoves(p, FALSE, "complete", 0)
      BY <2>1 DEF PageMoves
    <3>2. \A q \in received' : q.op = "complete" => \E s \in received : s.op = "complete" /\ s.id = q.id
      BY <2>1, <2>2
    <3> QED
      BY <1>1, <1>2, <3>1, <3>2, PagesStay
  <2>6. SlotsOwned'
    <3> SUFFICES ASSUME overlapped = {} PROVE Cardinality(Owners') <= usedCount'
      BY <1>2 DEF SlotsOwned
    <3>1. Owners' \subseteq Owners \union {r.id}
      <4> SUFFICES ASSUME NEW i \in Owners', i # r.id PROVE i \in Owners
        OBVIOUS
      <4>1. i \in Link!Id /\ (upload[i] \in Link!Held
                               \/ \E q \in received' : q.id = i /\ q.pc \in {"insert", "release"})
        BY <1>2 DEF Owners
      <4>2. ASSUME NEW q \in received', q.id = i, q.pc \in {"insert", "release"} PROVE i \in Owners
        <5>1. q \in received
          BY <2>1, <2>2, <4>2
        <5> QED
          BY <4>1, <4>2, <5>1 DEF Owners
      <4>3. upload[i] \in Link!Held => i \in Owners
        BY <4>1 DEF Owners
      <4> QED
        BY <4>1, <4>2, <4>3
    <3>2. /\ IsFiniteSet(Owners \union {r.id})
          /\ Cardinality(Owners \union {r.id}) <= Cardinality(Owners) + 1
          /\ Cardinality(Owners) \in Nat
      <4>1. Cardinality(Owners) \in Nat
        BY OwnersAreFinite, FS_CardinalityType
      <4>2. /\ IsFiniteSet(Owners \union {r.id})
            /\ Cardinality(Owners \union {r.id}) =
                 IF r.id \in Owners THEN Cardinality(Owners) ELSE Cardinality(Owners) + 1
        BY OwnersAreFinite, FS_AddElement
      <4> QED
        BY <4>1, <4>2
    <3>3. /\ Cardinality(Owners') <= Cardinality(Owners \union {r.id})
          /\ Cardinality(Owners') \in Nat /\ Cardinality(Owners \union {r.id}) \in Nat
      BY <3>1, <3>2, OwnersAreFinite, FS_Subset, FS_CardinalityType
    <3> QED
      BY <1>1, <1>4, <3>2, <3>3 DEF SlotsOwned, LinkWellTyped
  <2>7. LinkFits(n)
    BY <1>1, <1>2, <2>1 DEF LinkFits, OnLinkPath
  <2>8. \A q \in received' : LinkFits(q)'
    BY <1>2, <2>2, <2>7 DEF LinkInv, LinkFits
  <2>9. ASSUME NEW i \in Link!Id PROVE ResidentFits(i)' /\ CarriedOn(i)'
    <3>1. ResidentFits(i)'
      BY <1>2 DEF LinkInv, ResidentFits
    <3>2. \A q \in received : q.pc \in {"enter", "enqueue"} => q \in received'
      BY <1>2, <2>1
    <3>3. CarriedOn(i)'
      BY <1>2, <3>2 DEF LinkInv, CarriedOn
    <3> QED
      BY <3>1, <3>3
  <2> QED
    BY <2>3, <2>4, <2>5, <2>6, <2>8, <2>9 DEF LinkInv
<1> QED
  BY <1>3, <1>4 DEF Link!Claim

\* The requests for an upload that is still to be created: its own.
LEMMA CreationIsAlone ==
  ASSUME LinkInv, NEW r \in received, r.op = "create", NEW q \in received, q.id = r.id
  PROVE  q = r
<1>1. LinkFits(r) /\ LinkFits(q) /\ Alone(q, r) /\ q \in LinkRequestSet
  BY LinkPaths DEF LinkInv, AllAlone
<1>2. CASE q.op = "create"
  BY <1>1, <1>2 DEF Alone
<1>3. CASE q.op = "complete"
  BY <1>1, <1>3 DEF LinkFits
<1>4. CASE q.op \in {"approve", "reject"}
  BY <1>1, <1>4 DEF LinkFits, OnLinkPath, Resided
<1> QED
  BY <1>1, <1>2, <1>3, <1>4 DEF LinkRequestSet

\* The row takes over the slot from the request that claimed it (createUpload).
LEMMA InsertUploadKeeps == ASSUME LinkInv, NEW r \in received, Link!InsertUpload(r) PROVE LinkInv'
<1>1. /\ LinkWellTyped /\ AllAlone /\ PagesFit /\ SlotsOwned
      /\ r \in LinkRequestSet /\ LinkFits(r) /\ r.id \in Link!Id
      /\ ResidentFits(r.id)
  BY LinkPaths DEF LinkInv
<1>2. /\ UNCHANGED <<usedCount, contents, content, stored, added, unsent, overlapped, ids, reviews,
                     copies, lostRequests, expired, original>>
      /\ r.op = "create" /\ r.pc = "insert"
  BY LinkPaths DEF Link!InsertUpload, Link!link, Link!counters
<1>3. r.id \in Owners
  BY <1>1, <1>2 DEF Owners
<1>4. CASE upload' = upload /\ Link!Goto(r, "release")
  <2>1. PICK n \in LinkRequestSet :
           /\ received' = (received \ {r}) \union {n} /\ page' = page
           /\ n.op = r.op /\ n.by = r.by /\ n.id = r.id /\ n.copy = r.copy /\ n.pc = "release"
    BY <1>1, <1>4, LinkOnwards DEF LinkPc
  <2>2. LinkFits(n)
    BY <1>1, <1>2, <2>1 DEF LinkFits, OnLinkPath
  <2>3. UNCHANGED linkRows /\ expired' \in BOOLEAN /\ original' \in [Link!Id -> BOOLEAN]
    BY <1>1, <1>2, <1>4 DEF linkRows, LinkWellTyped
  <2> QED
    BY <1>2, <1>3, <2>1, <2>2, <2>3, LinkQuietGoto
<1>5. CASE upload' = [upload EXCEPT ![r.id] = "pending"] /\ Link!Reply(r, TRUE)
  <2>1. /\ received' = received \ {r} /\ page' \in [Resident -> PageSet]
        /\ \A p \in Resident : PageMoves(p, TRUE, "create", r.id)
    BY <1>1, <1>2, <1>5, LinkReplies
  <2>2. /\ upload'[r.id] = "pending" /\ upload[r.id] = "none"
        /\ \A i \in Link!Id : i # r.id => upload'[i] = upload[i]
        /\ upload' \in [Link!Id -> Link!ResidentUploadStatus]
    BY <1>1, <1>2, <1>5 DEF LinkWellTyped, LinkFits, Link!ResidentUploadStatus
  <2>3. \A q \in received' : q \in received /\ q.id # r.id /\ q.id \in Link!Id
    BY <1>1, <1>2, <2>1, CreationIsAlone, LinkPaths
  <2>4. LinkWellTyped'
    BY <1>1, <1>2, <2>1, <2>2 DEF LinkWellTyped
  <2>5. AllAlone'
    BY <1>1, <1>2, <2>1, AloneShrinks
  <2>6. PagesFit'
    <3>1. \A q \in received' : q.op = "complete" => \E s \in received : s.op = "complete" /\ s.id = q.id
      BY <2>1
    <3> QED
      BY <1>1, <1>2, <2>1, <2>2, <3>1, PagesStay
  <2>7. SlotsOwned'
    <3>1. Owners' \subseteq Owners
      <4> SUFFICES ASSUME NEW i \in Owners', i # r.id PROVE i \in Owners
        BY <1>3
      <4>1. i \in Link!Id /\ (upload[i] \in Link!Held
                               \/ \E q \in received' : q.id = i /\ q.pc \in {"insert", "release"})
        BY <2>2 DEF Owners
      <4> QED
        BY <2>3, <4>1 DEF Owners
    <3> QED
      BY <1>1, <1>2, <3>1, SlotsStay
  <2>8. \A q \in received' : LinkFits(q)'
    BY <1>2, <2>2, <2>3 DEF LinkInv, LinkFits
  <2>9. ASSUME NEW i \in Link!Id PROVE ResidentFits(i)' /\ CarriedOn(i)'
    <3>1. ResidentFits(i) /\ CarriedOn(i)
      BY DEF LinkInv
    <3>2. CASE i # r.id
      <4>1. \A q \in received : q.pc \in {"enter", "enqueue"} => q \in received'
        BY <1>2, <2>1
      <4> QED
        BY <1>2, <2>2, <3>1, <3>2, <4>1 DEF ResidentFits, CarriedOn
    <3>3. CASE i = r.id
      <4>1. i <= ids /\ i \in Nat /\ ids \in Nat
        BY <1>1, <3>3 DEF LinkFits, LinkWellTyped, Link!Id
      <4>2. ResidentFits(i)'
        BY <1>2, <2>2, <3>1, <3>3, <4>1 DEF ResidentFits, Resided
      <4> QED
        BY <2>2, <3>3, <4>2 DEF CarriedOn
    <3> QED
      BY <3>2, <3>3
  <2> QED
    BY <2>4, <2>5, <2>6, <2>7, <2>8, <2>9 DEF LinkInv
<1> QED
  BY <1>4, <1>5 DEF Link!InsertUpload

\* A slot is given back by the one request that still had it.
LEMMA ReleaseSlotKeeps == ASSUME LinkInv, NEW r \in received, Link!ReleaseSlot(r) PROVE LinkInv'
<1>1. /\ LinkWellTyped /\ AllAlone /\ PagesFit /\ SlotsOwned
      /\ r \in LinkRequestSet /\ LinkFits(r) /\ r.id \in Link!Id
  BY LinkPaths DEF LinkInv
<1>2. /\ UNCHANGED <<upload, contents, content, stored, added, unsent, overlapped, ids, reviews,
                     copies, lostRequests, expired, original>>
      /\ r.op \in {"create", "complete"} /\ r.pc = "release"
      /\ usedCount' = IF usedCount > 0 THEN usedCount - 1 ELSE 0
      /\ Link!Reply(r, FALSE)
  BY LinkPaths DEF Link!ReleaseSlot, Link!rows, Link!counters
<1>3. /\ received' = received \ {r} /\ page' \in [Resident -> PageSet]
      /\ \A p \in Resident : PageMoves(p, FALSE, r.op, r.id)
  BY <1>1, <1>2, LinkReplies
<1>4. LinkWellTyped'
  <2>1. usedCount' \in 0 .. MaxUploads
    BY <1>1, <1>2, LinkAssumption DEF LinkWellTyped
  <2> QED
    BY <1>1, <1>2, <1>3, <2>1 DEF LinkWellTyped
<1>5. AllAlone'
  BY <1>1, <1>2, <1>3, AloneShrinks
<1>6. PagesFit'
  <2>1. \A q \in received' : q.op = "complete" => \E s \in received : s.op = "complete" /\ s.id = q.id
    BY <1>3
  <2> QED
    BY <1>1, <1>2, <1>3, <2>1, PagesStay
<1>7. SlotsOwned'
  <2> SUFFICES ASSUME overlapped = {} PROVE Cardinality(Owners') <= usedCount'
    BY <1>2 DEF SlotsOwned
  <2>1. r.id \in Owners
    BY <1>1, <1>2 DEF Owners
  <2>2. upload[r.id] \notin Link!Held
    BY <1>1, <1>2 DEF LinkFits, Link!Held
  <2>3. ASSUME NEW q \in received', q.id = r.id PROVE q.pc \notin {"insert", "release"}
    <3>1. q \in received /\ q # r /\ Alone(q, r) /\ LinkFits(q)
      BY <1>1, <1>3, LinkPaths DEF AllAlone
    <3>2. CASE r.op = "create"
      BY <1>3, <2>3, <3>1, <3>2, CreationIsAlone
    <3>3. CASE r.op = "complete" /\ q.pc = "insert"
      BY <1>1, <2>3, <3>1, <3>3, LinkPaths DEF LinkFits
    <3>4. CASE r.op = "complete" /\ q.pc = "release"
      <4>1. q.op = "create" => q = r
        BY <2>3, <3>1, CreationIsAlone
      <4>2. q.op = "complete"
        BY <3>1, <3>4, <4>1, LinkPaths
      <4> QED
        BY <1>2, <2>3, <3>1, <3>4, <4>2 DEF Alone, Busy
    <3> QED
      BY <1>2, <3>2, <3>3, <3>4
  <2>4. Owners' \subseteq Owners \ {r.id}
    <3> SUFFICES ASSUME NEW i \in Owners' PROVE i \in Owners /\ i # r.id
      OBVIOUS
    <3>1. i \in Link!Id /\ (upload[i] \in Link!Held
                             \/ \E q \in received' : q.id = i /\ q.pc \in {"insert", "release"})
      BY <1>2 DEF Owners
    <3>2. i # r.id
      BY <2>2, <2>3, <3>1
    <3> QED
      BY <1>3, <3>1, <3>2 DEF Owners
  <2>5. /\ IsFiniteSet(Owners \ {r.id}) /\ Cardinality(Owners \ {r.id}) = Cardinality(Owners) - 1
        /\ Cardinality(Owners) \in Nat
    BY <2>1, OwnersAreFinite, FS_RemoveElement, FS_CardinalityType
  <2>6. /\ Cardinality(Owners') <= Cardinality(Owners \ {r.id})
        /\ Cardinality(Owners') \in Nat /\ Cardinality(Owners \ {r.id}) \in Nat
    BY <2>4, <2>5, OwnersAreFinite, FS_Subset, FS_CardinalityType
  <2> QED
    BY <1>1, <1>2, <2>5, <2>6 DEF SlotsOwned, LinkWellTyped
<1>8. \A q \in received' : LinkFits(q)'
  BY <1>2, <1>3 DEF LinkInv, LinkFits
<1>9. ASSUME NEW i \in Link!Id PROVE ResidentFits(i)' /\ CarriedOn(i)'
  <2>1. ResidentFits(i)'
    BY <1>2 DEF LinkInv, ResidentFits
  <2>2. \A q \in received : q.pc \in {"enter", "enqueue"} => q \in received'
    BY <1>2, <1>3
  <2>3. CarriedOn(i)'
    BY <1>2, <2>2 DEF LinkInv, CarriedOn
  <2> QED
    BY <2>1, <2>3
<1> QED
  BY <1>4, <1>5, <1>6, <1>7, <1>8, <1>9 DEF LinkInv

\* A completion is received while the upload is pending; one beside another marks the upload
\* (completeUpload).
LEMMA LoadUploadKeeps == ASSUME LinkInv, NEW r \in received, Link!LoadUpload(r) PROVE LinkInv'
<1>1. /\ LinkWellTyped /\ AllAlone /\ PagesFit /\ SlotsOwned
      /\ r \in LinkRequestSet /\ LinkFits(r) /\ r.id \in Link!Id
  BY LinkPaths DEF LinkInv
<1>2. /\ UNCHANGED <<usedCount, upload, contents, content, stored, added, unsent, ids, reviews,
                     copies, lostRequests, expired, original>>
      /\ r.op = "complete" /\ r.pc = "load"
  BY DEF Link!LoadUpload, Link!link, Link!rows
<1>3. expired' \in BOOLEAN /\ original' \in [Link!Id -> BOOLEAN]
  BY <1>1, <1>2 DEF LinkWellTyped
<1>4. CASE Link!Reply(r, FALSE) /\ UNCHANGED overlapped
  BY <1>2, <1>3, <1>4, LinkQuietReply DEF linkRows
<1>5. CASE upload[r.id] = "awaiting_branch_review" /\ Link!Goto(r, "original") /\ UNCHANGED overlapped
  <2>1. PICK n \in LinkRequestSet :
           /\ received' = (received \ {r}) \union {n} /\ page' = page
           /\ n.op = r.op /\ n.by = r.by /\ n.id = r.id /\ n.copy = r.copy /\ n.pc = "original"
    BY <1>1, <1>5, LinkOnwards DEF LinkPc
  <2>2. LinkFits(n)
    BY <1>1, <1>2, <1>5, <2>1 DEF LinkFits, OnLinkPath, Resided
  <2> QED
    BY <1>2, <1>3, <1>5, <2>1, <2>2, LinkQuietGoto DEF linkRows, Busy
<1>6. CASE upload[r.id] = "pending" /\ Link!Receive(r)
  <2>1. PICK n \in LinkRequestSet :
           /\ received' = (received \ {r}) \union {n} /\ page' = page
           /\ n.op = r.op /\ n.by = r.by /\ n.id = r.id /\ n.copy = r.copy /\ n.pc = "head"
    BY <1>1, <1>6, LinkOnwards DEF LinkPc, Link!Receive
  <2>2. /\ overlapped \subseteq overlapped' /\ overlapped' \subseteq Link!Id
        /\ Link!Receiving(r.id) => r.id \in overlapped'
    BY <1>1, <1>6 DEF Link!Receive, LinkWellTyped
  <2>3. \A q \in received' : q \in received \ {r} \/ q = n
    BY <2>1
  <2>4. LinkWellTyped'
    BY <1>1, <1>2, <2>1, <2>2 DEF LinkWellTyped
  <2>5. AllAlone'
    <3>1. ASSUME NEW q \in received \ {r} PROVE Alone(q, n)' /\ Alone(n, q)'
      <4>1. q.id = r.id /\ q.op = "complete" /\ q.pc \in Busy => r.id \in overlapped'
        <5>1. q.id = r.id /\ q.op = "complete" /\ q.pc \in {"head", "fail", "accept"}
                => Link!Receiving(r.id)
          BY DEF Link!Receiving
        <5>2. q.id = r.id /\ q.op = "complete" /\ q.pc = "release" => r.id \in overlapped
          BY <1>6 DEF LinkInv, LinkFits
        <5> QED
          BY <2>2, <5>1, <5>2 DEF Busy
      <4> QED
        BY <1>2, <2>1, <4>1 DEF Alone
    <3>2. Alone(n, n)'
      BY DEF Alone
    <3>3. ASSUME NEW p \in received \ {r}, NEW q \in received \ {r} PROVE Alone(p, q)'
      BY <1>1, <2>2 DEF AllAlone, Alone
    <3> QED
      BY <2>3, <3>1, <3>2, <3>3 DEF AllAlone
  <2>6. PagesFit'
    <3>1. \A p \in Resident : PageMoves(p, FALSE, "complete", 0)
      BY <2>1 DEF PageMoves
    <3>2. \A q \in received' : q.op = "complete" => \E s \in received : s.op = "complete" /\ s.id = q.id
      BY <2>1, <2>3
    <3> QED
      BY <1>1, <1>2, <3>1, <3>2, PagesStay
  <2>7. SlotsOwned'
    <3>1. Owners' \subseteq Owners
      <4> SUFFICES ASSUME NEW i \in Owners' PROVE i \in Owners
        OBVIOUS
      <4>1. i \in Link!Id /\ (upload[i] \in Link!Held
                               \/ \E q \in received' : q.id = i /\ q.pc \in {"insert", "release"})
        BY <1>2 DEF Owners
      <4> QED
        BY <2>1, <2>3, <4>1 DEF Owners
    <3> QED
      BY <1>1, <1>2, <2>2, <3>1, SlotsStay
  <2>8. LinkFits(n)'
    BY <1>1, <1>2, <1>6, <2>1 DEF LinkFits, OnLinkPath
  <2>9. \A q \in received' : LinkFits(q)'
    BY <1>2, <2>2, <2>3, <2>8 DEF LinkInv, LinkFits
  <2>10. ASSUME NEW i \in Link!Id PROVE ResidentFits(i)' /\ CarriedOn(i)'
    <3>1. ResidentFits(i)'
      BY <1>2, <2>2 DEF LinkInv, ResidentFits
    <3>2. \A q \in received : q.pc \in {"enter", "enqueue"} => q \in received'
      BY <1>2, <2>1
    <3>3. CarriedOn(i)'
      BY <1>2, <2>2, <3>2 DEF LinkInv, CarriedOn
    <3> QED
      BY <3>1, <3>3
  <2> QED
    BY <2>4, <2>5, <2>6, <2>7, <2>9, <2>10 DEF LinkInv
<1> QED
  BY <1>4, <1>5, <1>6 DEF Link!LoadUpload

\* While a completion that nobody overlaps is being received, at most completions that have
\* not loaded the upload yet are at work beside it.
LEMMA ReceptionIsAlone ==
  ASSUME LinkInv, NEW r \in received, r.pc \in {"head", "fail", "accept"}, r.id \notin overlapped,
         NEW q \in received, q.id = r.id, q # r
  PROVE  q.op = "complete" /\ q.pc = "load"
<1>1. /\ LinkFits(r) /\ LinkFits(q) /\ Alone(q, r) /\ q \in LinkRequestSet /\ r.op = "complete"
      /\ upload[r.id] = "pending"
  BY LinkPaths DEF LinkInv, AllAlone, LinkFits
<1>2. q.op # "create" /\ q.by # "branch" /\ q.pc # "original"
  BY <1>1 DEF LinkFits, Resided
<1>3. q.op = "complete"
  BY <1>2, LinkPaths DEF LinkRequestSet
<1>4. q.pc \notin Busy
  BY <1>1, <1>3 DEF Alone, Busy
<1> QED
  BY <1>1, <1>2, <1>3, <1>4 DEF LinkFits, OnLinkPath, Busy

\* What was not received fails, and its slot is given back afterwards (failUpload).
LEMMA LinkFailKeeps == ASSUME LinkInv, NEW r \in received, Link!FailUpload(r) PROVE LinkInv'
<1>1. /\ LinkWellTyped /\ AllAlone /\ PagesFit /\ SlotsOwned
      /\ r \in LinkRequestSet /\ LinkFits(r) /\ r.id \in Link!Id /\ ResidentFits(r.id)
  BY LinkPaths DEF LinkInv
<1>2. /\ UNCHANGED <<usedCount, contents, content, stored, added, unsent, overlapped, ids, reviews,
                     copies, lostRequests, expired, original>>
      /\ r.op = "complete" /\ r.pc = "fail" /\ upload[r.id] # "none"
      /\ upload' = [upload EXCEPT ![r.id] = IF @ = "pending" THEN "upload_failed" ELSE @]
  BY <1>1, LinkPaths DEF Link!FailUpload, Link!link, Link!counters, LinkFits
<1>3. PICK n \in LinkRequestSet :
         /\ received' = (received \ {r}) \union {n} /\ page' = page
         /\ n.op = r.op /\ n.by = r.by /\ n.id = r.id /\ n.copy = r.copy /\ n.pc = "release"
         /\ n.seen = IF r.by = "branch" /\ r.pc = "load" THEN upload[r.id] ELSE r.seen
  BY <1>1, LinkOnwards DEF Link!FailUpload, LinkPc
<1>4. /\ upload' \in [Link!Id -> Link!ResidentUploadStatus]
      /\ \A i \in Link!Id : i # r.id => upload'[i] = upload[i]
      /\ upload'[r.id] = IF upload[r.id] = "pending" THEN "upload_failed" ELSE upload[r.id]
  BY <1>1, <1>2 DEF LinkWellTyped, Link!ResidentUploadStatus
<1>5. \A q \in received' : q \in received \ {r} \/ q = n
  BY <1>3
<1>6. LinkWellTyped'
  BY <1>1, <1>2, <1>3, <1>4 DEF LinkWellTyped
<1>7. AllAlone'
  BY <1>1, <1>2, <1>3, AloneGoesOn DEF Busy
<1>8. PagesFit'
  <2>1. \A p \in Resident : PageMoves(p, FALSE, "complete", 0)
    BY <1>3 DEF PageMoves
  <2>2. \A q \in received' : q.op = "complete" => \E s \in received : s.op = "complete" /\ s.id = q.id
    BY <1>3, <1>5
  <2>3. \A i \in Link!Id : (\A s \in received : s.op = "complete" => s.id # i) => upload'[i] = upload[i]
    BY <1>2, <1>4
  <2> QED
    BY <1>1, <1>2, <2>1, <2>2, <2>3, PagesStay
<1>9. SlotsOwned'
  <2>1. ASSUME overlapped = {} PROVE Owners' \subseteq Owners
    <3> SUFFICES ASSUME NEW i \in Owners' PROVE i \in Owners
      OBVIOUS
    <3>1. i \in Link!Id /\ (upload'[i] \in Link!Held
                             \/ \E q \in received' : q.id = i /\ q.pc \in {"insert", "release"})
      BY DEF Owners
    <3>2. CASE i = r.id
      BY <1>1, <1>2, <2>1, <3>2 DEF Owners, LinkFits, Link!Held
    <3>3. CASE i # r.id
      BY <1>3, <1>4, <1>5, <3>1, <3>3 DEF Owners
    <3> QED
      BY <3>2, <3>3
  <2> QED
    BY <1>1, <1>2, <2>1, SlotsStay
<1>10. LinkFits(n)'
  BY <1>1, <1>2, <1>3, <1>4 DEF LinkFits, OnLinkPath
<1>11. ASSUME NEW q \in received \ {r} PROVE LinkFits(q)'
  <2>1. LinkFits(q) /\ q.id \in Link!Id /\ q \in LinkRequestSet
    BY LinkPaths
  <2>2. CASE q.id # r.id \/ upload[r.id] # "pending"
    BY <1>2, <1>4, <2>1, <2>2 DEF LinkFits
  <2>3. CASE q.id = r.id /\ upload[r.id] = "pending"
    <3>1. q.op # "create" /\ q.by # "branch" /\ q.pc # "original"
      BY <2>1, <2>3 DEF LinkFits, Resided
    <3>2. q.op = "complete"
      BY <3>1, LinkPaths DEF LinkRequestSet
    <3>3. r.id \notin overlapped => q.pc = "load"
      BY <1>2, <2>3, ReceptionIsAlone
    <3> QED
      BY <1>2, <1>4, <2>1, <2>3, <3>1, <3>2, <3>3 DEF LinkFits
  <2> QED
    BY <2>2, <2>3
<1>12. ASSUME NEW i \in Link!Id PROVE ResidentFits(i)' /\ CarriedOn(i)'
  <2>1. ResidentFits(i) /\ CarriedOn(i)
    BY DEF LinkInv
  <2>2. \A q \in received : q.pc \in {"enter", "enqueue"} => q \in received'
    BY <1>2, <1>3
  <2>3. CASE upload'[i] = upload[i]
    BY <1>2, <2>1, <2>2, <2>3 DEF ResidentFits, CarriedOn
  <2>4. CASE upload[i] = "pending" /\ upload'[i] = "upload_failed"
    BY <1>1, <1>2, <1>4, <2>1, <2>4 DEF ResidentFits, CarriedOn, Resided
  <2> QED
    BY <1>4, <2>3, <2>4
<1> QED
  BY <1>5, <1>6, <1>7, <1>8, <1>9, <1>10, <1>11, <1>12 DEF LinkInv

\* A received upload is a content of its own (completeUpload's transaction).
LEMMA AcceptKeeps == ASSUME LinkInv, NEW r \in received, Link!Accept(r) PROVE LinkInv'
<1>1. /\ LinkWellTyped /\ AllAlone /\ PagesFit /\ SlotsOwned
      /\ r \in LinkRequestSet /\ LinkFits(r) /\ r.id \in Link!Id /\ ResidentFits(r.id)
  BY LinkPaths DEF LinkInv
<1>2. /\ UNCHANGED <<usedCount, stored, added, unsent, overlapped, ids, reviews,
                     copies, lostRequests, expired>>
      /\ r.op = "complete" /\ r.pc = "accept" /\ upload[r.id] # "none" /\ stored[r.id] = "fits"
  BY <1>1, LinkPaths DEF Link!Accept, Link!link, Link!counters, LinkFits
<1>3. PICK n \in LinkRequestSet :
         /\ received' = (received \ {r}) \union {n} /\ page' = page
         /\ n.op = r.op /\ n.by = r.by /\ n.id = r.id /\ n.copy = r.copy /\ n.pc = "original"
         /\ n.seen = IF r.by = "branch" /\ r.pc = "load" THEN upload[r.id] ELSE r.seen
  BY <1>1, LinkOnwards DEF Link!Accept, LinkPc
<1>4. /\ upload' \in [Link!Id -> Link!ResidentUploadStatus]
      /\ contents' \in [Link!Id -> Nat]
      /\ content' \in [Link!Id -> {"none", "uploaded", "processing", "canceled"}]
      /\ original' \in [Link!Id -> BOOLEAN]
      /\ \A i \in Link!Id : i # r.id => /\ upload'[i] = upload[i] /\ contents'[i] = contents[i]
                                        /\ content'[i] = content[i]
      /\ upload'[r.id] = "awaiting_branch_review" /\ contents'[r.id] = contents[r.id] + 1
      /\ content'[r.id] = "uploaded" /\ contents[r.id] \in Nat
  BY <1>1 DEF Link!Accept, LinkWellTyped, Link!ResidentUploadStatus
<1>5. \A q \in received' : q \in received \ {r} \/ q = n
  BY <1>3
<1>6. LinkWellTyped'
  BY <1>1, <1>2, <1>3, <1>4 DEF LinkWellTyped
<1>7. AllAlone'
  BY <1>1, <1>2, <1>3, AloneGoesOn DEF Busy
<1>8. PagesFit'
  <2>1. \A p \in Resident : PageMoves(p, FALSE, "complete", 0)
    BY <1>3 DEF PageMoves
  <2>2. \A q \in received' : q.op = "complete" => \E s \in received : s.op = "complete" /\ s.id = q.id
    BY <1>3, <1>5
  <2>3. \A i \in Link!Id : (\A s \in received : s.op = "complete" => s.id # i) => upload'[i] = upload[i]
    BY <1>2, <1>4
  <2>4. \A i \in Link!Id : contents[i] # 0 => contents'[i] # 0
    BY <1>4
  <2> QED
    BY <1>1, <1>2, <2>1, <2>2, <2>3, <2>4, PagesStay
<1>9. SlotsOwned'
  <2>1. ASSUME overlapped = {} PROVE Owners' \subseteq Owners
    <3> SUFFICES ASSUME NEW i \in Owners' PROVE i \in Owners
      OBVIOUS
    <3>1. i \in Link!Id /\ (upload'[i] \in Link!Held
                             \/ \E q \in received' : q.id = i /\ q.pc \in {"insert", "release"})
      BY DEF Owners
    <3>2. CASE i = r.id
      BY <1>1, <1>2, <2>1, <3>2 DEF Owners, LinkFits, Link!Held
    <3>3. CASE i # r.id
      BY <1>3, <1>4, <1>5, <3>1, <3>3 DEF Owners
    <3> QED
      BY <3>2, <3>3
  <2> QED
    BY <1>1, <1>2, <2>1, SlotsStay
<1>10. LinkFits(n)'
  BY <1>1, <1>2, <1>3, <1>4 DEF LinkFits, OnLinkPath, Resided
<1>11. ASSUME NEW q \in received \ {r} PROVE LinkFits(q)'
  <2>1. LinkFits(q) /\ q.id \in Link!Id /\ q \in LinkRequestSet
    BY LinkPaths
  <2>2. CASE q.id # r.id
    BY <1>2, <1>4, <2>1, <2>2 DEF LinkFits
  <2>3. CASE q.id = r.id
    <3>1. q.op # "create"
      BY <1>2, <2>1, <2>3 DEF LinkFits
    <3>2. r.id \notin overlapped => q.op = "complete" /\ q.pc = "load"
      BY <1>2, <2>3, ReceptionIsAlone
    <3>3. q.op = "complete" => q.by # "branch"
      BY <2>1 DEF LinkFits, OnLinkPath
    <3> QED
      BY <1>2, <1>4, <2>1, <2>3, <3>1, <3>2, <3>3 DEF LinkFits, Resided
  <2> QED
    BY <2>2, <2>3
<1>12. ASSUME NEW i \in Link!Id PROVE ResidentFits(i)' /\ CarriedOn(i)'
  <2>1. ResidentFits(i) /\ CarriedOn(i)
    BY DEF LinkInv
  <2>2. \A q \in received : q.pc \in {"enter", "enqueue"} => q \in received'
    BY <1>2, <1>3
  <2>3. CASE i # r.id
    BY <1>2, <1>4, <2>1, <2>2, <2>3 DEF ResidentFits, CarriedOn
  <2>4. CASE i = r.id
    <3>1. r.id <= ids /\ r.id \in Nat /\ ids \in Nat
      BY <1>1 DEF LinkFits, LinkWellTyped, Link!Id
    <3>2. i \notin overlapped => contents[i] = 0 /\ i \notin added
      BY <1>1, <1>2, <2>1, <2>4 DEF LinkFits, ResidentFits, Resided
    <3>3. ResidentFits(i)'
      BY <1>2, <1>4, <2>4, <3>1, <3>2 DEF ResidentFits, Resided
    <3> QED
      BY <1>4, <2>4, <3>3 DEF CarriedOn
  <2> QED
    BY <2>3, <2>4
<1> QED
  BY <1>5, <1>6, <1>7, <1>8, <1>9, <1>10, <1>11, <1>12 DEF LinkInv

\* The first decision stands, with what it does to the content; a second one like it is
\* carried on (decide).
LEMMA DecideKeeps == ASSUME LinkInv, NEW r \in received, Link!Decide(r) PROVE LinkInv'
<1>1. /\ LinkWellTyped /\ AllAlone /\ PagesFit /\ SlotsOwned
      /\ r \in LinkRequestSet /\ LinkFits(r) /\ r.id \in Link!Id /\ ResidentFits(r.id)
  BY LinkPaths DEF LinkInv
<1>2. /\ UNCHANGED <<usedCount, contents, original, stored, added, unsent, overlapped, ids, reviews,
                     copies, lostRequests, expired>>
      /\ r.by = "branch" /\ r.op \in {"approve", "reject"} /\ r.pc = "decide"
      /\ upload[r.id] \in Resided /\ r.by \notin Resident
  BY <1>1, LinkPaths DEF Link!Decide, Link!link, Link!counters, LinkFits
<1>3. /\ \/ Link!Decides(r) /\ upload' = [upload EXCEPT ![r.id] = Link!Decision(r)]
         \/ ~ Link!Decides(r) /\ upload' = upload
      /\ \/ /\ Link!Decides(r) \/ Link!AlreadyDecided(r)
            /\ r.op = "reject" /\ content[r.id] = "uploaded"
            /\ content' = [content EXCEPT ![r.id] = "canceled"]
         \/ /\ ~ ((Link!Decides(r) \/ Link!AlreadyDecided(r))
                    /\ r.op = "reject" /\ content[r.id] = "uploaded")
            /\ content' = content
  BY DEF Link!Decide
<1>4. /\ Link!Decision(r) \in {"approved", "rejected"}
      /\ Link!Decision(r) = "approved" <=> r.op = "approve"
      /\ Link!Decides(r) => upload[r.id] = "awaiting_branch_review"
      /\ r.id \notin overlapped /\ Link!AlreadyDecided(r) => upload[r.id] = Link!Decision(r)
  BY <1>1, <1>2 DEF Link!Decision, Link!Decides, Link!AlreadyDecided, LinkFits
<1>5. /\ upload' \in [Link!Id -> Link!ResidentUploadStatus]
      /\ content' \in [Link!Id -> {"none", "uploaded", "processing", "canceled"}]
      /\ \A i \in Link!Id : i # r.id => upload'[i] = upload[i] /\ content'[i] = content[i]
      /\ \/ upload'[r.id] = upload[r.id] /\ ~ Link!Decides(r)
         \/ Link!Decides(r) /\ upload'[r.id] = Link!Decision(r)
      /\ upload'[r.id] \in Resided
      /\ content'[r.id] \in {content[r.id], "canceled"}
  BY <1>1, <1>2, <1>3, <1>4 DEF LinkWellTyped, Link!ResidentUploadStatus, Resided
<1>6. \/ /\ r.op = "approve" /\ (Link!Decides(r) \/ Link!AlreadyDecided(r))
         /\ Link!Goto(r, "enter")
      \/ /\ ~ (Link!Decides(r) /\ r.op = "approve")
         /\ Link!Reply(r, FALSE)
  BY DEF Link!Decide
<1>7. /\ page' = page
      /\ \/ received' = received \ {r} /\ ~ (Link!Decides(r) /\ r.op = "approve")
         \/ \E n \in LinkRequestSet :
              /\ received' = (received \ {r}) \union {n}
              /\ n.op = r.op /\ n.by = r.by /\ n.id = r.id /\ n.copy = r.copy /\ n.pc = "enter"
              /\ n.seen = r.seen
              /\ r.op = "approve" /\ (Link!Decides(r) \/ Link!AlreadyDecided(r))
  <2>1. CASE /\ r.op = "approve" /\ (Link!Decides(r) \/ Link!AlreadyDecided(r))
             /\ Link!Goto(r, "enter")
    <3>1. PICK n \in LinkRequestSet :
             /\ received' = (received \ {r}) \union {n} /\ page' = page
             /\ n.op = r.op /\ n.by = r.by /\ n.id = r.id /\ n.copy = r.copy /\ n.pc = "enter"
             /\ n.seen = IF r.by = "branch" /\ r.pc = "load" THEN upload[r.id] ELSE r.seen
      BY <1>1, <2>1, LinkOnwards DEF LinkPc
    <3> QED
      BY <1>2, <2>1, <3>1
  <2>2. CASE ~ (Link!Decides(r) /\ r.op = "approve") /\ Link!Reply(r, FALSE)
    BY <1>1, <1>2, <2>2, LinkReplies
  <2> QED
    BY <1>6, <2>1, <2>2
<1>8. \A q \in received' :
        \/ q \in received \ {r}
        \/ /\ q \in LinkRequestSet /\ q.op = r.op /\ q.by = r.by /\ q.id = r.id /\ q.pc = "enter"
           /\ q.seen = r.seen
           /\ r.op = "approve" /\ (Link!Decides(r) \/ Link!AlreadyDecided(r))
  BY <1>7
<1>9. LinkWellTyped'
  <2>1. received' \subseteq LinkRequestSet
    BY <1>1, <1>8 DEF LinkWellTyped
  <2> QED
    BY <1>1, <1>2, <1>5, <1>7, <2>1 DEF LinkWellTyped
<1>10. AllAlone'
  <2>1. overlapped \subseteq overlapped'
    BY <1>2
  <2> QED
    BY <1>1, <1>2, <1>7, <2>1, AloneShrinks, AloneGoesOn DEF Busy
<1>11. PagesFit'
  <2>1. \A p \in Resident : PageMoves(p, FALSE, "complete", 0)
    BY <1>7 DEF PageMoves
  <2>2. \A q \in received' : q.op = "complete" => \E s \in received : s.op = "complete" /\ s.id = q.id
    BY <1>2, <1>8
  <2>3. \A i \in Link!Id : upload[i] \in {"none", "pending"} => upload'[i] = upload[i]
    BY <1>2, <1>5 DEF Resided
  <2> QED
    BY <1>1, <1>2, <2>1, <2>2, <2>3, PagesStay
<1>12. SlotsOwned'
  <2>1. Owners' \subseteq Owners
    <3> SUFFICES ASSUME NEW i \in Owners' PROVE i \in Owners
      OBVIOUS
    <3>1. i \in Link!Id /\ (upload'[i] \in Link!Held
                             \/ \E q \in received' : q.id = i /\ q.pc \in {"insert", "release"})
      BY DEF Owners
    <3>2. CASE i = r.id
      BY <1>1, <1>2, <3>2 DEF Owners, Link!Held, Resided
    <3>3. CASE i # r.id
      BY <1>5, <1>8, <3>1, <3>3 DEF Owners
    <3> QED
      BY <3>2, <3>3
  <2> QED
    BY <1>1, <1>2, <2>1, SlotsStay
<1>13. ASSUME NEW q \in received' PROVE LinkFits(q)'
  <2>1. CASE q \in received \ {r}
    <3>1. LinkFits(q) /\ q.id \in Link!Id /\ q \in LinkRequestSet
      BY <2>1, LinkPaths
    <3>2. CASE q.id # r.id \/ ~ Link!Decides(r)
      BY <1>2, <1>5, <3>1, <3>2 DEF LinkFits
    <3>3. CASE q.id = r.id /\ Link!Decides(r)
      BY <1>2, <1>4, <1>5, <3>1, <3>3 DEF LinkFits, Resided
    <3> QED
      BY <3>2, <3>3
  <2>2. CASE /\ q \in LinkRequestSet /\ q.op = r.op /\ q.by = r.by /\ q.id = r.id /\ q.pc = "enter"
             /\ q.seen = r.seen
             /\ r.op = "approve" /\ (Link!Decides(r) \/ Link!AlreadyDecided(r))
    <3>1. r.id \notin overlapped => upload'[r.id] = "approved"
      BY <1>4, <1>5, <2>2
    <3>2. r.id \notin overlapped /\ r.seen \in {"approved", "rejected"} => upload'[r.id] = r.seen
      BY <1>1, <1>2, <1>5 DEF LinkFits, Link!Decides
    <3> QED
      BY <1>1, <1>2, <1>5, <2>2, <3>1, <3>2 DEF LinkFits, OnLinkPath
  <2> QED
    BY <1>8, <2>1, <2>2
<1>14. ASSUME NEW i \in Link!Id PROVE ResidentFits(i)' /\ CarriedOn(i)'
  <2>1. ResidentFits(i) /\ CarriedOn(i)
    BY DEF LinkInv
  <2>2. \A q \in received : q.pc \in {"enter", "enqueue"} => q \in received'
    BY <1>2, <1>7
  <2>3. CASE i # r.id
    BY <1>2, <1>5, <2>1, <2>2, <2>3 DEF ResidentFits, CarriedOn
  <2>4. CASE i = r.id
    <3>1. r.id <= ids /\ r.id \in Nat /\ ids \in Nat
      BY <1>1 DEF LinkFits, LinkWellTyped, Link!Id
    <3>2. /\ contents[i] # 0 /\ content[i] # "none" /\ content'[i] # "none"
          /\ content'[i] = "processing" => content[i] = "processing"
      BY <1>2, <1>5, <2>1, <2>4 DEF ResidentFits
    <3>3. ASSUME i \notin overlapped
          PROVE  /\ upload'[i] = "awaiting_branch_review" => content'[i] = "uploaded"
                 /\ upload'[i] = "approved" => content'[i] \in {"uploaded", "processing"}
                 /\ upload'[i] = "rejected" => content'[i] = "canceled"
                 /\ i \in added => upload'[i] = "approved"
      <4>1. CASE Link!Decides(r)
        <5>1. upload[i] = "awaiting_branch_review" /\ content[i] = "uploaded" /\ i \notin added
          BY <1>4, <2>1, <2>4, <3>3, <4>1 DEF ResidentFits
        <5>2. upload'[i] = Link!Decision(r)
          BY <1>5, <2>4, <4>1
        <5>3. r.op = "reject" => content'[i] = "canceled"
          BY <1>1, <1>3, <2>4, <4>1, <5>1 DEF LinkWellTyped
        <5>4. r.op = "approve" => content'[i] = "uploaded"
          BY <1>1, <1>3, <2>4, <4>1, <5>1 DEF LinkWellTyped
        <5> QED
          BY <1>2, <1>4, <5>1, <5>2, <5>3, <5>4
      <4>2. CASE ~ Link!Decides(r) /\ Link!AlreadyDecided(r) /\ r.op = "reject"
        <5>1. upload[i] = "rejected" /\ upload'[i] = "rejected" /\ content[i] = "canceled"
          BY <1>2, <1>4, <1>5, <2>1, <2>4, <3>3, <4>2 DEF ResidentFits
        <5> QED
          BY <1>5, <2>1, <2>4, <3>3, <5>1 DEF ResidentFits
      <4>3. CASE ~ Link!Decides(r) /\ ~ (Link!AlreadyDecided(r) /\ r.op = "reject")
        <5>1. upload'[i] = upload[i] /\ content'[i] = content[i]
          BY <1>3, <1>5, <2>4, <4>3
        <5> QED
          BY <2>1, <3>3, <5>1 DEF ResidentFits
      <4> QED
        BY <4>1, <4>2, <4>3
    <3>4. ResidentFits(i)'
      BY <1>2, <1>5, <2>1, <2>4, <3>1, <3>2, <3>3 DEF ResidentFits
    <3>5. CarriedOn(i)'
      <4>1. CASE ~ Link!Decides(r)
        BY <1>2, <1>5, <2>1, <2>2, <2>4, <4>1 DEF CarriedOn
      <4>2. CASE Link!Decides(r) /\ r.op = "approve"
        BY <1>7, <2>4, <4>2 DEF CarriedOn
      <4>3. CASE Link!Decides(r) /\ r.op = "reject"
        BY <1>4, <1>5, <2>4, <4>3 DEF CarriedOn
      <4> QED
        BY <1>2, <4>1, <4>2, <4>3
    <3> QED
      BY <3>4, <3>5
  <2> QED
    BY <2>3, <2>4
<1> QED
  BY <1>9, <1>10, <1>11, <1>12, <1>13, <1>14 DEF LinkInv

\* An approval reaches the queue, or is known to have been refused by it (addJob).
LEMMA LinkEnqueueKeeps ==
  ASSUME LinkInv, NEW r \in received, Link!EnqueueTranscode(r) PROVE LinkInv'
<1>1. /\ LinkWellTyped /\ AllAlone /\ PagesFit /\ SlotsOwned
      /\ r \in LinkRequestSet /\ LinkFits(r) /\ r.id \in Link!Id /\ ResidentFits(r.id)
  BY LinkPaths DEF LinkInv
<1>2. /\ UNCHANGED <<usedCount, upload, contents, content, original, stored, overlapped, ids, reviews,
                     copies, lostRequests, expired>>
      /\ r.by = "branch" /\ r.op = "approve" /\ r.pc = "enqueue" /\ r.by \notin Resident
      /\ Link!Reply(r, TRUE)
  BY LinkPaths DEF Link!EnqueueTranscode, Link!link, Link!rows
<1>3. /\ added \subseteq added' /\ unsent \subseteq unsent'
      /\ added' \subseteq added \union {r.id} /\ unsent' \subseteq unsent \union {r.id}
      /\ r.id \in added' \/ r.id \in unsent'
  BY DEF Link!EnqueueTranscode
<1>4. received' = received \ {r} /\ page' = page
  BY <1>1, <1>2, LinkReplies
<1>5. LinkWellTyped'
  BY <1>1, <1>2, <1>3, <1>4 DEF LinkWellTyped
<1>6. AllAlone'
  BY <1>1, <1>2, <1>4, AloneShrinks
<1>7. PagesFit'
  <2>1. \A p \in Resident : PageMoves(p, FALSE, "complete", 0)
    BY <1>4 DEF PageMoves
  <2>2. \A q \in received' : q.op = "complete" => \E s \in received : s.op = "complete" /\ s.id = q.id
    BY <1>4
  <2> QED
    BY <1>1, <1>2, <2>1, <2>2, PagesStay
<1>8. SlotsOwned'
  <2>1. Owners' \subseteq Owners
    BY <1>2, <1>4 DEF Owners
  <2> QED
    BY <1>1, <1>2, <2>1, SlotsStay
<1>9. \A q \in received' : LinkFits(q)'
  BY <1>2, <1>4 DEF LinkInv, LinkFits
<1>10. ASSUME NEW i \in Link!Id PROVE ResidentFits(i)' /\ CarriedOn(i)'
  <2>1. ResidentFits(i) /\ CarriedOn(i)
    BY DEF LinkInv
  <2>2. CASE i # r.id
    BY <1>2, <1>3, <1>4, <2>1, <2>2 DEF ResidentFits, CarriedOn
  <2>3. CASE i = r.id
    <3>1. upload[i] \in Resided /\ (i \notin overlapped => upload[i] = "approved")
      BY <1>1, <1>2, <2>3 DEF LinkFits
    <3> QED
      BY <1>2, <1>3, <2>1, <2>3, <3>1 DEF ResidentFits, CarriedOn
  <2> QED
    BY <2>2, <2>3
<1> QED
  BY <1>5, <1>6, <1>7, <1>8, <1>9, <1>10 DEF LinkInv

\* The transcode that starts is of an approved upload (applyJobTransition).
LEMMA StartTranscodeKeeps ==
  ASSUME LinkInv, NEW i \in Link!Id, Link!StartTranscode(i) PROVE LinkInv'
<1>1. /\ LinkWellTyped /\ AllAlone /\ PagesFit /\ SlotsOwned /\ ResidentFits(i)
  BY DEF LinkInv
<1>2. /\ UNCHANGED <<usedCount, upload, contents, original, stored, added, unsent, overlapped, ids,
                     reviews, copies, lostRequests, expired, page, received>>
      /\ i \in added /\ content[i] = "uploaded"
      /\ content' = [content EXCEPT ![i] = "processing"]
  BY DEF Link!StartTranscode, Link!link, Link!counters
<1>3. /\ content' \in [Link!Id -> {"none", "uploaded", "processing", "canceled"}]
      /\ content'[i] = "processing"
      /\ \A j \in Link!Id : j # i => content'[j] = content[j]
  BY <1>1, <1>2 DEF LinkWellTyped
<1>4. LinkWellTyped'
  BY <1>1, <1>2, <1>3 DEF LinkWellTyped
<1>5. AllAlone' /\ SlotsOwned' /\ PagesFit'
  <2>1. Owners' = Owners
    BY <1>2 DEF Owners
  <2>2. SlotsOwned'
    BY <1>1, <1>2, <2>1 DEF SlotsOwned
  <2>3. AllAlone'
    BY <1>1, <1>2, AloneShrinks
  <2>4. PagesFit'
    BY <1>1, <1>2 DEF PagesFit, PageFits
  <2> QED
    BY <2>2, <2>3, <2>4
<1>6. \A q \in received' : LinkFits(q)'
  BY <1>2 DEF LinkInv, LinkFits
<1>7. ASSUME NEW j \in Link!Id PROVE ResidentFits(j)' /\ CarriedOn(j)'
  <2>1. ResidentFits(j) /\ CarriedOn(j)
    BY DEF LinkInv
  <2>2. CarriedOn(j)'
    BY <1>2, <2>1 DEF CarriedOn
  <2>3. ResidentFits(j)'
    BY <1>2, <1>3, <2>1 DEF ResidentFits
  <2> QED
    BY <2>2, <2>3
<1> QED
  BY <1>4, <1>5, <1>6, <1>7 DEF LinkInv

\* The page puts its file before anything else is asked about its upload (putVideo).
LEMMA LinkPutKeeps == ASSUME LinkInv, NEW p \in Resident, Link!Put(p) PROVE LinkInv'
<1>1. /\ LinkWellTyped /\ AllAlone /\ PagesFit /\ SlotsOwned /\ PageFits(p)
  BY DEF LinkInv, PagesFit
<1> DEFINE i == page[p].id
<1>2. /\ UNCHANGED <<usedCount, upload, contents, content, original, added, unsent, overlapped, ids,
                     reviews, copies, lostRequests, expired>>
      /\ page[p].step = "put" /\ page[p] \in PageSet
      /\ i \in Link!Id /\ upload[i] = "pending" /\ i <= ids
      /\ \A r \in received : r.op = "complete" => r.id # i
  BY <1>1 DEF Link!Put, Link!link, Link!rows, Link!counters, PageFits, LinkWellTyped
<1>3. PICK new \in PageSet, n \in LinkRequestSet :
        /\ page' = [page EXCEPT ![p] = new] /\ new.step = "complete" /\ new.id = page[p].id
        /\ new.told = page[p].told
        /\ received' = received \union {n} /\ n.op = "complete" /\ n.by = p /\ n.id = page[p].id
        /\ n.pc = "load" /\ n.seen = "none"
  <2> DEFINE new == [page[p] EXCEPT !.step = "complete"]
             n == Link!Ask(p, "complete", page[p].id)
  <2>1. new \in PageSet /\ new.step = "complete" /\ new.id = page[p].id /\ new.told = page[p].told
    BY <1>2 DEF PageSet
  <2>2. n \in LinkRequestSet /\ n.op = "complete" /\ n.by = p /\ n.id = page[p].id /\ n.pc = "load"
        /\ n.seen = "none"
    BY <1>2 DEF LinkRequestSet, Link!Ask, LinkPc, Link!ResidentUploadStatus
  <2>3. page' = [page EXCEPT ![p] = new] /\ received' = received \union {n}
    BY DEF Link!Put
  <2> HIDE DEF new, n
  <2> QED
    BY <2>1, <2>2, <2>3
<1>4. /\ stored' \in [Link!Id -> {"none", "fits", "oversized"}]
      /\ \A j \in Link!Id : j # i => stored'[j] = stored[j]
  BY <1>1, <1>2 DEF Link!Put, LinkWellTyped
<1>5. \A q \in received' : q \in received \/ q = n
  BY <1>3
<1>6. /\ page \in [Resident -> PageSet] /\ page'[p] = new
      /\ \A s \in Resident : page'[s].id = page[s].id
      /\ \A s \in Resident : s # p => page'[s] = page[s]
  BY <1>1, <1>3 DEF LinkWellTyped
<1>7. LinkWellTyped'
  <2>1. page' \in [Resident -> PageSet] /\ received' \subseteq LinkRequestSet
    BY <1>1, <1>3 DEF LinkWellTyped
  <2> QED
    BY <1>1, <1>2, <1>4, <2>1 DEF LinkWellTyped
<1>8. AllAlone'
  <2> SUFFICES ASSUME NEW q \in received', NEW s \in received' PROVE Alone(q, s)'
    BY DEF AllAlone
  <2>1. CASE q \in received /\ s \in received
    BY <1>1, <1>2, <2>1 DEF AllAlone, Alone
  <2>2. CASE q = n \/ s = n
    BY <1>3, <2>2 DEF Alone, Busy
  <2> QED
    BY <1>5, <2>1, <2>2
<1>9. PagesFit'
  <2>1. ASSUME NEW s \in Resident PROVE PageFits(s)'
    <3>1. PageFits(s)
      BY <1>1 DEF PagesFit
    <3>2. CASE s = p
      BY <1>2, <1>3, <1>6, <3>1, <3>2 DEF PageFits
    <3>3. CASE s # p
      <4>1. page[s].id # i
        BY <1>1, <1>2, <3>3 DEF PagesFit, Link!Id
      <4> QED
        BY <1>2, <1>3, <1>5, <1>6, <3>1, <3>3, <4>1 DEF PageFits
    <3> QED
      BY <3>2, <3>3
  <2> QED
    BY <1>1, <1>6, <2>1 DEF PagesFit
<1>10. SlotsOwned'
  <2>1. Owners' \subseteq Owners
    BY <1>2, <1>3, <1>5 DEF Owners
  <2> QED
    BY <1>1, <1>2, <2>1, SlotsStay
<1>11. ASSUME NEW q \in received' PROVE LinkFits(q)'
  <2>1. CASE q \in received
    <3>1. LinkFits(q) /\ q.id \in Link!Id /\ (q.pc = "accept" => q.op = "complete")
      BY <2>1, LinkPaths
    <3>2. q.pc = "accept" => q.id # i
      BY <1>2, <2>1, <3>1
    <3> QED
      BY <1>2, <1>4, <3>1, <3>2 DEF LinkFits
  <2>2. CASE q = n
    BY <1>2, <1>3, <2>2, LinkAssumption DEF LinkFits, OnLinkPath
  <2> QED
    BY <1>5, <2>1, <2>2
<1>12. ASSUME NEW j \in Link!Id PROVE ResidentFits(j)' /\ CarriedOn(j)'
  <2>1. ResidentFits(j) /\ CarriedOn(j)
    BY DEF LinkInv
  <2>2. CarriedOn(j)'
    BY <1>2, <1>3, <2>1 DEF CarriedOn
  <2>3. ResidentFits(j)'
    BY <1>2, <1>4, <2>1 DEF ResidentFits, Resided
  <2> QED
    BY <2>2, <2>3
<1> QED
  BY <1>7, <1>8, <1>9, <1>10, <1>11, <1>12 DEF LinkInv

\* A new upload has an id nobody has used (createUpload).
LEMMA LinkSendKeeps == ASSUME LinkInv, NEW p \in Resident, Link!Send(p) PROVE LinkInv'
<1>1. /\ LinkWellTyped /\ AllAlone /\ PagesFit /\ SlotsOwned
      /\ \A r \in received : LinkFits(r)
  BY DEF LinkInv
<1>2. /\ UNCHANGED <<usedCount, upload, contents, content, original, stored, added, unsent,
                     overlapped, reviews, copies, lostRequests, expired>>
      /\ ids \in Nat /\ ids' = ids + 1 /\ ids' \in Link!Id /\ ids' \in 0 .. MaxIds
  BY <1>1, LinkAssumption DEF Link!Send, Link!link, Link!rows, LinkWellTyped, Link!Id
<1>3. PICK new \in PageSet, n \in LinkRequestSet :
        /\ page' = [page EXCEPT ![p] = new] /\ new.step = "create" /\ new.id = ids'
        /\ new.told = FALSE
        /\ received' = received \union {n} /\ n.op = "create" /\ n.by = p /\ n.id = ids'
        /\ n.pc = "load" /\ n.seen = "none"
  <2> DEFINE new == [step |-> "create", id |-> ids', told |-> FALSE]
             n == Link!Ask(p, "create", ids')
  <2>1. new \in PageSet /\ new.step = "create" /\ new.id = ids' /\ new.told = FALSE
    BY <1>2 DEF PageSet
  <2>2. n \in LinkRequestSet /\ n.op = "create" /\ n.by = p /\ n.id = ids' /\ n.pc = "load"
        /\ n.seen = "none"
    BY <1>2 DEF LinkRequestSet, Link!Ask, LinkPc, Link!ResidentUploadStatus
  <2>3. page' = [page EXCEPT ![p] = new] /\ received' = received \union {n}
    BY DEF Link!Send
  <2> HIDE DEF new, n
  <2> QED
    BY <2>1, <2>2, <2>3
<1>4. \A q \in received' : q \in received \/ q = n
  BY <1>3
<1>5. \A r \in received : r.id < ids' /\ r.id # ids' /\ r.id \in Link!Id
  BY <1>1, <1>2, LinkPaths DEF LinkFits, Link!Id
<1>6. upload[ids'] = "none"
  BY <1>2 DEF LinkInv, ResidentFits
<1>7. /\ page \in [Resident -> PageSet] /\ page'[p] = new
      /\ \A s \in Resident : s # p => page'[s] = page[s]
      /\ \A s \in Resident : page[s].id \in Nat /\ page[s].id <= ids
  BY <1>1, <1>3 DEF LinkWellTyped, PagesFit, PageFits, PageSet
<1>8. LinkWellTyped'
  <2>1. page' \in [Resident -> PageSet] /\ received' \subseteq LinkRequestSet
    BY <1>1, <1>3 DEF LinkWellTyped
  <2> QED
    BY <1>1, <1>2, <2>1 DEF LinkWellTyped
<1>9. AllAlone'
  <2> SUFFICES ASSUME NEW q \in received', NEW s \in received' PROVE Alone(q, s)'
    BY DEF AllAlone
  <2>1. CASE q \in received /\ s \in received
    BY <1>1, <1>2, <2>1 DEF AllAlone, Alone
  <2>2. CASE q = n \/ s = n
    BY <1>3, <1>4, <1>5, <2>2 DEF Alone
  <2> QED
    BY <1>4, <2>1, <2>2
<1>10. PagesFit'
  <2>1. ASSUME NEW s \in Resident PROVE PageFits(s)'
    <3>1. PageFits(s) /\ page[s].id <= ids'
      BY <1>1, <1>2, <1>7 DEF PagesFit
    <3>2. CASE s = p
      BY <1>2, <1>3, <1>4, <1>5, <1>6, <1>7, <3>2 DEF PageFits
    <3>3. CASE s # p
      BY <1>2, <1>3, <1>4, <1>7, <3>1, <3>3 DEF PageFits
    <3> QED
      BY <3>2, <3>3
  <2>2. ASSUME NEW s \in Resident, NEW q \in Resident, page'[s].id = page'[q].id, page'[s].id # 0
        PROVE  s = q
    BY <1>1, <1>2, <1>3, <1>7, <2>2 DEF PagesFit
  <2> QED
    BY <2>1, <2>2 DEF PagesFit
<1>11. SlotsOwned'
  <2>1. Owners' \subseteq Owners
    BY <1>2, <1>3, <1>4 DEF Owners
  <2> QED
    BY <1>1, <1>2, <2>1, SlotsStay
<1>12. ASSUME NEW q \in received' PROVE LinkFits(q)'
  <2>1. CASE q \in received
    <3>1. LinkFits(q) /\ q.id <= ids'
      BY <1>1, <1>2, <1>5, <2>1 DEF Link!Id
    <3> QED
      BY <1>2, <3>1 DEF LinkFits
  <2>2. CASE q = n
    BY <1>2, <1>3, <1>6, <2>2, LinkAssumption DEF LinkFits, OnLinkPath
  <2> QED
    BY <1>4, <2>1, <2>2
<1>13. ASSUME NEW j \in Link!Id PROVE ResidentFits(j)' /\ CarriedOn(j)'
  <2>1. ResidentFits(j) /\ CarriedOn(j)
    BY DEF LinkInv
  <2>2. CarriedOn(j)'
    BY <1>2, <1>3, <2>1 DEF CarriedOn
  <2>3. j > ids' => j > ids
    BY <1>2 DEF Link!Id
  <2>4. ResidentFits(j)'
    BY <1>2, <2>1, <2>3 DEF ResidentFits
  <2> QED
    BY <2>2, <2>4
<1> QED
  BY <1>8, <1>9, <1>10, <1>11, <1>12, <1>13 DEF LinkInv

-------------------------------------------------------------------------------
(* The theorem *)

\* A link nobody has used.
LEMMA LinkStarts == Link!Init => LinkInv
<1> SUFFICES ASSUME Link!Init PROVE LinkInv
  OBVIOUS
<1>1. 0 \in 0 .. MaxIds /\ 0 \in 0 .. MaxUploads
  BY LinkAssumption
<1>2. page \in [Resident -> PageSet]
  BY <1>1 DEF Link!Init, PageSet
<1>3. LinkWellTyped
  BY <1>1, <1>2 DEF Link!Init, LinkWellTyped, Link!ResidentUploadStatus
<1>4. AllAlone /\ \A r \in received : LinkFits(r)
  BY DEF Link!Init, AllAlone
<1>5. PagesFit
  BY DEF Link!Init, PagesFit, PageFits
<1>6. SlotsOwned
  <2>1. Owners = {}
    BY DEF Owners, Link!Init, Link!Held
  <2> QED
    BY <2>1, FS_EmptySet DEF SlotsOwned, Link!Init
<1>7. \A i \in Link!Id : ResidentFits(i) /\ CarriedOn(i)
  BY DEF Link!Init, ResidentFits, CarriedOn, Resided
<1> QED
  BY <1>3, <1>4, <1>5, <1>6, <1>7 DEF LinkInv

\* Every step of the link keeps the invariant.
LEMMA LinkSteps == LinkInv /\ [Link!Next]_linkVars => LinkInv'
<1> SUFFICES ASSUME LinkInv, [Link!Next]_linkVars PROVE LinkInv'
  OBVIOUS
<1>1. CASE UNCHANGED linkVars
  BY <1>1 DEF linkVars, LinkInv, LinkWellTyped, AllAlone, Alone, PagesFit, PageFits, SlotsOwned,
              Owners, LinkFits, ResidentFits, CarriedOn
<1>2. ASSUME NEW r \in received,
             \/ Link!LoadLink(r) \/ Link!Claim(r) \/ Link!InsertUpload(r) \/ Link!ReleaseSlot(r)
             \/ Link!LoadUpload(r) \/ Link!HeadObject(r) \/ Link!FailUpload(r) \/ Link!Accept(r)
             \/ Link!EnsureOriginal(r) \/ Link!LoadForReview(r) \/ Link!RequireSource(r)
             \/ Link!Decide(r) \/ Link!EnterPipeline(r) \/ Link!EnqueueTranscode(r)
      PROVE  LinkInv'
  BY <1>2, LoadLinkKeeps, ClaimKeeps, InsertUploadKeeps, ReleaseSlotKeeps, LoadUploadKeeps,
     LinkHeadKeeps, LinkFailKeeps, AcceptKeeps, EnsureOriginalKeeps, LoadForReviewKeeps,
     RequireSourceKeeps, DecideKeeps, EnterPipelineKeeps, LinkEnqueueKeeps
<1>3. ASSUME NEW p \in Resident, Link!Put(p) \/ Link!GiveUp(p) \/ Link!Send(p) PROVE LinkInv'
  BY <1>3, LinkPutKeeps, LinkGiveUpKeeps, LinkSendKeeps
<1>4. ASSUME NEW i \in Link!Id,
             Link!Review("approve", i) \/ Link!Review("reject", i) \/ Link!StartTranscode(i)
      PROVE  LinkInv'
  BY <1>4, ReviewKeeps, StartTranscodeKeeps
<1>5. ASSUME NEW r \in received, Link!Redeliver(r) \/ Link!Die(r) PROVE LinkInv'
  BY <1>5, RedeliverKeeps, LinkDieKeeps
<1>6. CASE Link!Expire
  BY <1>6, ExpireKeeps
<1> QED
  BY <1>1, <1>2, <1>3, <1>4, <1>5, <1>6 DEF Link!Next, Link!Handler, Link!Page

\* The link counts its uploads as this module does.
LEMMA SameCardinality == ASSUME NEW S PROVE Link!Cardinality(S) = Cardinality(S)
BY DEF Link!Cardinality, Cardinality

\* The invariant says what the run checks.
LEMMA LinkInvSuffices == LinkInv => LinksHold
<1> SUFFICES ASSUME LinkInv PROVE LinksHold
  OBVIOUS
<1>1. LinkWellTyped /\ SlotsOwned /\ PagesFit
      /\ \A i \in Link!Id : ResidentFits(i) /\ CarriedOn(i)
  BY DEF LinkInv
<1>2. Link!TypeOK
  BY <1>1 DEF LinkWellTyped, ResidentFits, Link!TypeOK
<1>3. Link!SlotsHold
  <2> SUFFICES ASSUME overlapped = {}
               PROVE  /\ Cardinality({i \in Link!Id : upload[i] \in Link!Held}) <= usedCount
                      /\ usedCount <= MaxUploads
    BY SameCardinality DEF Link!SlotsHold
  <2> DEFINE held == {i \in Link!Id : upload[i] \in Link!Held}
  <2>1. held \in SUBSET Owners
    BY DEF Owners
  <2>2. IsFiniteSet(held) /\ Cardinality(held) <= Cardinality(Owners)
    BY <2>1, OwnersAreFinite, FS_Subset
  <2>3. Cardinality(held) \in Nat /\ Cardinality(Owners) \in Nat
    BY <2>2, OwnersAreFinite, FS_CardinalityType
  <2> HIDE DEF held
  <2>4. Cardinality(Owners) <= usedCount /\ usedCount \in Nat /\ usedCount <= MaxUploads
    BY <1>1, LinkAssumption DEF SlotsOwned, LinkWellTyped
  <2>5. Cardinality(held) <= usedCount
    BY <2>2, <2>3, <2>4
  <2> QED
    BY <2>4, <2>5 DEF held
<1>4. Link!OneContentPerUpload
  <2> SUFFICES ASSUME NEW i \in Link!Id, i \notin overlapped
               PROVE  contents[i] = IF upload[i] \in Link!Held \ {"pending"} THEN 1 ELSE 0
    BY DEF Link!OneContentPerUpload
  <2>1. contents[i] \in Nat /\ contents[i] <= 1 /\ (contents[i] = 0 <=> upload[i] \notin Resided)
    BY <1>1 DEF LinkWellTyped, ResidentFits
  <2>2. upload[i] \in Link!Held \ {"pending"} <=> upload[i] \in Resided
    BY DEF Link!Held, Resided
  <2> QED
    BY <2>1, <2>2
<1>5. Link!ReceivedIsOnRecord
  BY <1>1 DEF PagesFit, PageFits, LinkWellTyped, Link!ReceivedIsOnRecord
<1>6. Link!RejectedStaysOut
  BY <1>1 DEF ResidentFits, Link!RejectedStaysOut
<1>7. Link!TranscodeHasSource
  BY <1>1 DEF ResidentFits, LinkWellTyped, Link!TranscodeHasSource
<1>8. Link!ApprovedIsTranscoded
  BY <1>1 DEF CarriedOn, LinkInv, Link!ApprovedIsTranscoded
<1> QED
  BY <1>2, <1>3, <1>4, <1>5, <1>6, <1>7, <1>8 DEF LinksHold

\* A link's slots hold, a received upload is one content with a file, what a resident is told
\* is true, a rejected upload stays out of the pipeline and an approved one gets there, with
\* copies of completions, lost requests and decisions on two screens; where uploads are
\* exempt because two completions of theirs overlapped, the properties say so
\* (resident-links.service.ts, resident-reviews.service.ts).
THEOREM LinksStayTrue == BothSpec => []LinksHold
<1>1. BothInit => LinkInv
  BY LinkStarts DEF BothInit
<1>2. LinkInv /\ [ContentNext \/ LinkNext]_allVars => LinkInv'
  <2>1. [ContentNext \/ LinkNext]_allVars => [Link!Next]_linkVars
    BY DEF ContentNext, LinkNext, OnContent, allVars
  <2> QED
    BY <2>1, LinkSteps
<1> QED
  BY <1>1, <1>2, LinkInvSuffices, PTL DEF BothSpec
================================================================================
