-------------------------- MODULE Distribution_proofs --------------------------
(***************************************************************************)
(* For any set of channels and any number of retries, retractions and      *)
(* crashes: the type invariant and the safety properties of Distribution.  *)
(*                                                                         *)
(* A publication is at any time in the hands of at most one carrier: a     *)
(* request about to add its job, the job, or the announcement of the job's *)
(* end; and as long as it is, its row is pending (InFlight).  Every        *)
(* operation that hands a publication over reads a row that is not pending *)
(* and so finds no carrier.  A crash loses announcements and replays       *)
(* outcomes, and ends this discipline; what does not rest on it holds      *)
(* across crashes too.                                                     *)
(***************************************************************************)
EXTENDS Distribution, TLAPS

\* The channels are sent to once: before that no row has a status
\* (distribute, startAutoDistribution).
FirstSend ==
  /\ status = "center_approved" => \A t \in tasks : t.do # "auto"
  /\ status = "center_approved" \/ (\E t \in tasks : t.do = "auto") =>
       \A c \in Channel : pub[c] = "none"

Complete ==
  /\ \A c \in Channel : pub[c] \in {"none", "published", "retracted"}
  /\ \E c \in Channel : pub[c] # "none"

\* What is reported as published, or is about to be, is complete.
CompleteIsFinal ==
  /\ status = "published" => Complete
  /\ \A t \in tasks : t.do = "hop" /\ t.to = "published" => Complete

\* Job id has still to say what became of channel c.
Carries(id, c) ==
  /\ c \in job[id].targets
  /\ \/ job[id].state \in {"waiting", "active"}
     \/ job[id].state \in {"completed", "failed"}
        /\ [name |-> job[id].state, id |-> id] \in events

Hands(t, c) == t.do = "enqueue" /\ c \in t.targets

CarriedArePending ==
  /\ \A id \in JobKey : \A c \in Channel : Carries(id, c) => Pending(c)
  /\ \A t \in tasks : \A c \in Channel : Hands(t, c) => Pending(c)

OneCarrier ==
  \A c \in Channel :
    /\ \A id, other \in JobKey : Carries(id, c) /\ Carries(other, c) => id = other
    /\ \A t, u \in tasks : Hands(t, c) /\ Hands(u, c) => t = u
    /\ \A id \in JobKey, t \in tasks : ~ (Carries(id, c) /\ Hands(t, c))

\* A retraction under way is of a row that stays published until it is
\* retracted, and its second half finds the post down.
RetractionsStand ==
  /\ \A t \in tasks : t.do \in {"takedown", "retract"} =>
       pub[t.channel] \in {"published", "retracted"}
  /\ \A t \in tasks : t.do = "retract" => t.channel \notin onAir
  /\ RetractedIsOffAir

InFlight == CarriedArePending /\ OneCarrier /\ RetractionsStand

Undisturbed == up /\ scan = NoScan

SendInv == TypeOK /\ FirstSend /\ CompleteIsFinal

CrashFreeInv == SendInv /\ (crashes = 0 => Undisturbed /\ InFlight)

-------------------------------------------------------------------------------
(* Types *)

\* Each kind of task is one (the tasks of the handlers and requests).
LEMMA TaskForms ==
  /\ \A name \in {"completed", "failed"}, by \in Handler :
       [do |-> "summarize", name |-> name, by |-> by] \in Task
  /\ \A to \in {"published", "publish_failed"}, by \in Handler :
       [do |-> "hop", to |-> to, by |-> by] \in Task
  /\ \A targets \in JobKey : Enqueue(targets) \in Task
  /\ \A c \in Channel, s \in ContentStatus :
       [do |-> "retry", channel |-> c, seen |-> s, by |-> "user"] \in Task
  /\ \A c \in Channel : [do |-> "takedown", channel |-> c, by |-> "user"] \in Task
  /\ \A c \in Channel : [do |-> "retract", channel |-> c, by |-> "user"] \in Task
  /\ [do |-> "auto", by |-> "user"] \in Task
  /\ [do |-> "reload", by |-> "user"] \in Task
  /\ [do |-> "requeue", by |-> "user"] \in Task
<1>1. ASSUME NEW name \in {"completed", "failed"}, NEW by \in Handler
      PROVE  [do |-> "summarize", name |-> name, by |-> by]
               \in [do : {"summarize"}, name : {"completed", "failed"}, by : Handler]
  OBVIOUS
<1>2. ASSUME NEW to \in {"published", "publish_failed"}, NEW by \in Handler
      PROVE  [do |-> "hop", to |-> to, by |-> by]
               \in [do : {"hop"}, to : {"published", "publish_failed"}, by : Handler]
  OBVIOUS
<1>3. ASSUME NEW targets \in JobKey
      PROVE  Enqueue(targets) \in [do : {"enqueue"}, targets : JobKey, by : {"user"}]
  BY DEF Enqueue
<1>4. ASSUME NEW c \in Channel, NEW s \in ContentStatus
      PROVE  [do |-> "retry", channel |-> c, seen |-> s, by |-> "user"]
               \in [do : {"retry"}, channel : Channel, seen : ContentStatus, by : {"user"}]
  OBVIOUS
<1>5. ASSUME NEW c \in Channel, NEW d \in {"takedown", "retract"}
      PROVE  [do |-> d, channel |-> c, by |-> "user"]
               \in [do : {"takedown", "retract"}, channel : Channel, by : {"user"}]
  OBVIOUS
<1>6. ASSUME NEW d \in {"auto", "reload", "requeue"}
      PROVE  [do |-> d, by |-> "user"] \in [do : {"auto", "reload", "requeue"}, by : {"user"}]
  OBVIOUS
<1>7. QED
  BY <1>1, <1>2, <1>3, <1>4, <1>5, <1>6 DEF Task

\* The first state has every row, job and task of its type (Init).
LEMMA InitTypeOK == Init => TypeOK
<1> SUFFICES ASSUME Init PROVE TypeOK
  OBVIOUS
<1>1. status \in ContentStatus /\ tasks \subseteq Task
  BY TaskForms DEF Init, ContentStatus
<1>2. pub \in [Channel -> PublicationStatus] /\ job \in [JobKey -> Job]
  BY DEF Init, PublicationStatus, Job, Absent
<1>3. \A id \in JobKey : job[id].ok \subseteq job[id].targets /\ job[id].targets \subseteq id
  BY DEF Init, Absent
<1>4. scan \in [phase : {"off", "completed", "failed"}, todo : SUBSET JobKey]
  BY DEF Init, NoScan
<1>5. QED
  BY <1>1, <1>2, <1>3, <1>4 DEF Init, TypeOK

\* What a handler of an outcome or of a start leaves behind (onActive,
\* onCompleted, onFailed of the distribution jobs).
LEMMA HandleTyped ==
  ASSUME TypeOK, NEW name \in {"active", "completed", "failed"}, NEW id \in JobKey,
         NEW by \in Handler, Handle(name, id, by)
  PROVE  pub' \in [Channel -> PublicationStatus] /\ tasks' \subseteq Task
<1>1. pub \in [Channel -> PublicationStatus] /\ tasks \subseteq Task
  BY DEF TypeOK
<1>2. Begun(job[id].targets) \in [Channel -> PublicationStatus]
  BY <1>1 DEF Begun, PublicationStatus
<1>3. Resolved(job[id].targets, job[id].ok) \in [Channel -> PublicationStatus]
  BY <1>1 DEF Resolved, PublicationStatus
<1>4. name # "active" => [do |-> "summarize", name |-> name, by |-> by] \in Task
  BY DEF Task
<1>5. QED
  BY <1>1, <1>2, <1>3, <1>4 DEF Handle

\* A job that is added, or run, keeps the types of the queue (enqueuePublish
\* and the worker).
LEMMA JobTyped ==
  ASSUME TypeOK, NEW id \in JobKey, NEW j \in Job,
         j.ok \subseteq j.targets, j.targets \subseteq id,
         job' = [job EXCEPT ![id] = j]
  PROVE  /\ job' \in [JobKey -> Job]
         /\ \A k \in JobKey : job'[k].ok \subseteq job'[k].targets /\ job'[k].targets \subseteq k
<1>1. job \in [JobKey -> Job]
  BY DEF TypeOK
<1>2. \A k \in JobKey : job'[k] = IF k = id THEN j ELSE job[k]
  BY <1>1
<1>3. QED
  BY <1>1, <1>2 DEF TypeOK

\* No step of a handler, the worker, an operator, a crash or a boot leaves
\* the types (distribution-orchestrator.service.ts, pipeline.service.ts).
LEMMA NextTypeOK == TypeOK /\ [Next]_vars => TypeOK'
<1> SUFFICES ASSUME TypeOK, [Next]_vars PROVE TypeOK'
  OBVIOUS
<1>0. /\ job \in [JobKey -> Job]
      /\ pub \in [Channel -> PublicationStatus]
      /\ tasks \subseteq Task
      /\ events \subseteq [name : {"active", "completed", "failed"}, id : JobKey]
      /\ retries \in Nat /\ crashes \in Nat
  BY DEF TypeOK
<1>1. ASSUME NEW id \in JobKey, Start(id) PROVE TypeOK'
  <2>1. [job[id] EXCEPT !.state = "active"] \in Job
    BY <1>0 DEF Job
  <2>2. job' = [job EXCEPT ![id] = [job[id] EXCEPT !.state = "active"]]
    BY <1>1 DEF Start
  <2>3. job' \in [JobKey -> Job]
        /\ \A k \in JobKey : job'[k].ok \subseteq job'[k].targets /\ job'[k].targets \subseteq k
    <3> DEFINE j == [job[id] EXCEPT !.state = "active"]
    <3>1. j \in Job /\ j.ok = job[id].ok /\ j.targets = job[id].targets
      BY <1>0, <2>1 DEF Job
    <3>2. j.ok \subseteq j.targets /\ j.targets \subseteq id
      BY <3>1 DEF TypeOK
    <3>3. QED
      BY <2>2, <3>1, <3>2, JobTyped
  <2>4. QED
    BY <1>1, <2>3 DEF Start, Announce, rows, process, TypeOK
<1>2. ASSUME NEW id \in JobKey, Publish(id) PROVE TypeOK'
  <2>1. PICK ok \in SUBSET job[id].targets :
          /\ job' = [job EXCEPT ![id].state = "completed", ![id].ok = ok]
          /\ onAir' = onAir \union ok
    BY <1>2 DEF Publish
  <2> DEFINE j == [job[id] EXCEPT !.state = "completed", !.ok = ok]
  <2>2. job[id] \in Job
    BY <1>0
  <2>3. j \in Job /\ j.ok = ok /\ j.targets = job[id].targets
    BY <2>1, <2>2 DEF Job
  <2>4. job' = [job EXCEPT ![id] = j]
    BY <1>0, <2>1, <2>2 DEF Job
  <2>5. j.ok \subseteq j.targets /\ j.targets \subseteq id
    BY <2>1, <2>3 DEF TypeOK
  <2>6. job' \in [JobKey -> Job]
        /\ \A k \in JobKey : job'[k].ok \subseteq job'[k].targets /\ job'[k].targets \subseteq k
    BY <2>3, <2>4, <2>5, JobTyped
  <2>7. onAir' \subseteq Channel
    BY <2>1, <2>2 DEF TypeOK, Job
  <2>8. QED
    BY <1>2, <2>6, <2>7 DEF Publish, Announce, rows, process, TypeOK
<1>3. ASSUME NEW id \in JobKey, Break(id) PROVE TypeOK'
  <2> DEFINE j == [job[id] EXCEPT !.state = "failed"]
  <2>1. j \in Job /\ j.ok = job[id].ok /\ j.targets = job[id].targets
    BY <1>0 DEF Job
  <2>2. j.ok \subseteq j.targets /\ j.targets \subseteq id
    BY <2>1 DEF TypeOK
  <2>3. job' = [job EXCEPT ![id] = j]
    BY <1>3 DEF Break
  <2>4. job' \in [JobKey -> Job]
        /\ \A k \in JobKey : job'[k].ok \subseteq job'[k].targets /\ job'[k].targets \subseteq k
    BY <2>1, <2>2, <2>3, JobTyped
  <2>5. QED
    BY <1>3, <2>4 DEF Break, Announce, rows, process, TypeOK
<1>4. ASSUME NEW e \in events, Deliver(e) PROVE TypeOK'
  <2>1. pub' \in [Channel -> PublicationStatus] /\ tasks' \subseteq Task
    BY <1>0, <1>4, HandleTyped DEF Deliver, Handler
  <2>2. QED
    BY <1>4, <2>1 DEF Deliver, process, TypeOK
<1>5. ASSUME NEW t \in tasks, Summarize(t) PROVE TypeOK'
  <2>1. t.by \in Handler
    BY <1>0, <1>5 DEF Summarize, Task
  <2>2. tasks' \subseteq Task
    BY <1>0, <1>5, <2>1, TaskForms DEF Summarize, Verdict
  <2>3. QED
    BY <1>5, <2>2 DEF Summarize, rows, queue, process, TypeOK
<1>6. ASSUME NEW t \in tasks, Hop(t) PROVE TypeOK'
  <2>1. t.to \in ContentStatus
    BY <1>0, <1>6 DEF Hop, Task, ContentStatus
  <2>2. QED
    BY <1>6, <2>1 DEF Hop, queue, process, TypeOK
<1>7. ASSUME NEW t \in tasks, EnqueueStep(t) PROVE TypeOK'
  <2>1. t.targets \in JobKey
    BY <1>0, <1>7 DEF EnqueueStep, Task
  <2>2. tasks' \subseteq Task
    BY <1>0, <1>7 DEF EnqueueStep
  <2>3. unsent' \subseteq Channel
    BY <1>7, <2>1 DEF EnqueueStep, JobKey, TypeOK
  <2>4. job' \in [JobKey -> Job]
        /\ \A k \in JobKey : job'[k].ok \subseteq job'[k].targets /\ job'[k].targets \subseteq k
    <3>1. CASE job' = job
      BY <3>1 DEF TypeOK
    <3>2. CASE job' # job
      <4> DEFINE j == [state |-> "waiting", targets |-> t.targets, ok |-> {}]
      <4>1. job' = [job EXCEPT ![t.targets] = j]
        BY <1>7, <3>2 DEF EnqueueStep, Add, PublishJobId
      <4>2. j \in Job /\ j.ok \subseteq j.targets /\ j.targets \subseteq t.targets
        BY <2>1 DEF Job, JobKey
      <4>3. QED
        BY <2>1, <4>1, <4>2, JobTyped
    <3>3. QED
      BY <3>1, <3>2
  <2>5. QED
    BY <1>7, <2>2, <2>3, <2>4 DEF EnqueueStep, rows, process, TypeOK
<1>8. ASSUME NEW targets \in JobKey, CreateQueued(targets)
      PROVE  pub' \in [Channel -> PublicationStatus] /\ Enqueue(targets) \in Task
  BY <1>0, <1>8, TaskForms DEF CreateQueued, PublicationStatus
<1>9. ASSUME NEW t \in tasks, AutoDistribute(t) PROVE TypeOK'
  <2>1. pub' \in [Channel -> PublicationStatus] /\ tasks' \subseteq Task
    BY <1>0, <1>8, <1>9 DEF AutoDistribute
  <2>2. QED
    BY <1>9, <2>1 DEF AutoDistribute, queue, process, TypeOK
<1>10. ASSUME NEW t \in tasks, CommitRetryPublication(t) PROVE TypeOK'
  <2>1. t.channel \in Channel
    BY <1>0, <1>10 DEF CommitRetryPublication, Task
  <2>2. Enqueue({t.channel}) \in Task
    BY <2>1, TaskForms DEF JobKey
  <2>3. pub' \in [Channel -> PublicationStatus] /\ tasks' \subseteq Task
    BY <1>0, <1>10, <2>1, <2>2 DEF CommitRetryPublication, PublicationStatus, rows
  <2>4. status' \in ContentStatus
    BY <1>10 DEF CommitRetryPublication, rows, ContentStatus, TypeOK
  <2>5. QED
    BY <1>10, <2>3, <2>4 DEF CommitRetryPublication, queue, process, TypeOK
<1>11. ASSUME NEW t \in tasks, Reload(t) PROVE TypeOK'
  <2>1. tasks' \subseteq Task
    BY <1>0, <1>11, TaskForms DEF Reload
  <2>2. QED
    BY <1>11, <2>1 DEF Reload, rows, queue, process, TypeOK
<1>12. ASSUME NEW t \in tasks, RequeueFailed(t) PROVE TypeOK'
  <2> DEFINE failed == {c \in Channel : pub[c] = "failed"}
  <2>1. failed # {} => Enqueue(failed) \in Task
    BY TaskForms DEF JobKey
  <2>2. tasks' \subseteq Task
    BY <1>0, <1>12, <2>1 DEF RequeueFailed
  <2>3. pub' \in [Channel -> PublicationStatus]
    BY <1>0, <1>12 DEF RequeueFailed, PublicationStatus
  <2>4. QED
    BY <1>12, <2>2, <2>3 DEF RequeueFailed, queue, process, TypeOK
<1>13. ASSUME NEW t \in tasks, TakeDown(t) PROVE TypeOK'
  <2>1. tasks' \subseteq Task
    <3>1. t.channel \in Channel
      BY <1>0, <1>13 DEF TakeDown, Task
    <3>2. QED
      BY <1>0, <1>13, <3>1, TaskForms DEF TakeDown
  <2>2. QED
    BY <1>13, <2>1 DEF TakeDown, rows, queue, process, TypeOK
<1>14. ASSUME NEW t \in tasks, CommitRetract(t) PROVE TypeOK'
  <2>1. pub' \in [Channel -> PublicationStatus] /\ tasks' \subseteq Task
    BY <1>0, <1>14 DEF CommitRetract, PublicationStatus
  <2>2. QED
    BY <1>14, <2>1 DEF CommitRetract, queue, process, TypeOK
<1>15. CASE ScanJob
  <2>1. PICK id \in scan.todo :
          Handle(scan.phase, id, "scan") /\ scan' = [scan EXCEPT !.todo = @ \ {id}]
    BY <1>15 DEF ScanJob
  <2>2. /\ id \in JobKey
        /\ scan.phase \in {"off", "completed", "failed"}
        /\ scan' \in [phase : {"off", "completed", "failed"}, todo : SUBSET JobKey]
    BY <2>1 DEF TypeOK
  <2>3. pub' \in [Channel -> PublicationStatus] /\ tasks' \subseteq Task
    <3>1. CASE scan.phase \in {"completed", "failed"}
      BY <2>1, <2>2, <3>1, HandleTyped DEF Handler
    <3>2. CASE scan.phase = "off"
      BY <1>0, <2>1, <2>2, <3>2 DEF Handle, Job
    <3>3. QED
      BY <2>2, <3>1, <3>2
  <2>4. QED
    BY <1>15, <2>2, <2>3 DEF ScanJob, queue, TypeOK
<1>16. CASE ScanPhase
  <2>1. scan' \in [phase : {"off", "completed", "failed"}, todo : SUBSET JobKey]
    BY <1>16 DEF ScanPhase, NextPhase, NoScan, Finished
  <2>2. QED
    BY <1>16, <2>1 DEF ScanPhase, rows, queue, TypeOK
<1>17. CASE Distribute
  <2>1. pub' \in [Channel -> PublicationStatus] /\ tasks' \subseteq Task
    BY <1>0, <1>8, <1>17 DEF Distribute
  <2>2. QED
    BY <1>17, <2>1 DEF Distribute, queue, process, ContentStatus, TypeOK
<1>18. CASE Retry
  <2>1. tasks' \subseteq Task
    BY <1>0, <1>18, TaskForms DEF Retry
  <2>2. QED
    BY <1>18, <2>1 DEF Retry, queue, process, ContentStatus, TypeOK
<1>19. CASE Cancel
  BY <1>19 DEF Cancel, queue, process, ContentStatus, TypeOK
<1>20. ASSUME NEW c \in Channel, RetryPublication(c) PROVE TypeOK'
  <2>1. tasks' \subseteq Task
    <3>1. status \in ContentStatus
      BY DEF TypeOK
    <3>2. QED
      BY <1>0, <1>20, <3>1, TaskForms DEF RetryPublication
  <2>2. retries' \in Nat
    BY <1>0, <1>20 DEF RetryPublication
  <2>3. QED
    BY <1>20, <2>1, <2>2 DEF RetryPublication, rows, queue, process, TypeOK
<1>21. ASSUME NEW c \in Channel, Retract(c) PROVE TypeOK'
  <2>1. tasks' \subseteq Task
    BY <1>0, <1>21, TaskForms DEF Retract
  <2>2. retries' \in Nat
    <3>1. retries \in Nat /\ retries' = retries + 1
      BY <1>0, <1>21 DEF Retract
    <3>2. QED
      BY <3>1
  <2>3. QED
    BY <1>21, <2>1, <2>2 DEF Retract, rows, queue, process, TypeOK
<1>22. CASE Crash
  <2>1. PICK out \in SUBSET UNION {job[id].targets : id \in Finished("active")} :
          onAir' = onAir \union out
    BY <1>22 DEF Crash
  <2>2. out \subseteq Channel
    <3>1. \A id \in Finished("active") : job[id].targets \subseteq Channel
      BY <1>0 DEF Finished, Job
    <3>2. QED
      BY <3>1
  <2>3. \A id \in JobKey : job'[id] \in Job /\ job'[id].ok = job[id].ok
                           /\ job'[id].targets = job[id].targets
    BY <1>0, <1>22 DEF Crash, Job
  <2>4. job' \in [JobKey -> Job]
    BY <1>22, <2>3 DEF Crash
  <2>5. scan' \in [phase : {"off", "completed", "failed"}, todo : SUBSET JobKey]
    BY <1>22 DEF Crash, NoScan
  <2>6. \A id \in JobKey : job'[id].ok \subseteq job'[id].targets /\ job'[id].targets \subseteq id
    BY <2>3 DEF TypeOK
  <2>7. onAir' \subseteq Channel /\ up' \in BOOLEAN /\ crashes' \in Nat
    <3>1. onAir' \subseteq Channel
      BY <2>1, <2>2 DEF TypeOK
    <3>2. crashes \in Nat /\ crashes' = crashes + 1 /\ up' \in BOOLEAN
      BY <1>0, <1>22 DEF Crash
    <3>3. QED
      BY <3>1, <3>2
  <2>8. QED
    BY <1>22, <2>4, <2>5, <2>6, <2>7 DEF Crash, rows, TypeOK
<1>23. CASE Boot
  BY <1>23 DEF Boot, rows, queue, Finished, TypeOK
<1>24. CASE UNCHANGED vars
  BY <1>24 DEF vars, rows, queue, process, TypeOK
<1>25. QED
  BY <1>1, <1>2, <1>3, <1>4, <1>5, <1>6, <1>7, <1>9, <1>10, <1>11, <1>12, <1>13, <1>14,
     <1>15, <1>16, <1>17, <1>18, <1>19, <1>20, <1>21, <1>22, <1>23, <1>24
     DEF Next, Work, DeliverSome, TaskStep, ScanStep, Operator

\* Rows, jobs, announcements and tasks keep their types for any channels, and
\* a job never reports on a channel it does not carry (PublishJobData,
\* PublishJobResult), crashes included.
THEOREM TypeCorrect == Spec => []TypeOK
<1>1. QED
  BY InitTypeOK, NextTypeOK, PTL DEF Spec

-------------------------------------------------------------------------------
(* How rows move *)

FirstSending == status = "center_approved" \/ \E t \in tasks : t.do = "auto"

\* The moves of one publication row once it has been created.
RowMove(c) ==
  \/ pub'[c] = pub[c]
  \/ pub[c] = "queued" /\ pub'[c] = "publishing"
  \/ Pending(c) /\ pub'[c] \in {"published", "failed"}
  \/ pub[c] = "failed" /\ pub'[c] = "queued"
  \/ pub[c] = "published" /\ pub'[c] = "retracted"

\* The approval asks for the automatic distribution once.
LEMMA AutoIsOne ==
  ASSUME TypeOK, NEW t \in tasks, t.do = "auto"
  PROVE  t = [do |-> "auto", by |-> "user"]
<1>1. t \in Task
  BY DEF TypeOK
<1>2. t \in [do : {"auto", "reload", "requeue"}, by : {"user"}]
  BY <1>1 DEF Task
<1>3. QED
  BY <1>2

\* A handler moves the rows of its job only, and only pending ones
\* (beginPublishing, resolveResult, failExhausted).
LEMMA HandleMoves ==
  ASSUME TypeOK, NEW name, NEW id, NEW by, Handle(name, id, by)
  PROVE  \A c \in Channel : RowMove(c)
<1>1. pub \in [Channel -> PublicationStatus]
  BY DEF TypeOK
<1>2. CASE pub' = Begun(job[id].targets)
  BY <1>1, <1>2 DEF Begun, RowMove
<1>3. CASE pub' = Resolved(job[id].targets, job[id].ok)
  BY <1>1, <1>3 DEF Resolved, RowMove
<1>4. CASE pub' = pub
  BY <1>4 DEF RowMove
<1>5. QED
  BY <1>2, <1>3, <1>4 DEF Handle

\* Apart from the first send every step moves every row along RowMove, and
\* the first send is over after it.
LEMMA RowsMove ==
  ASSUME TypeOK, FirstSend, [Next]_vars
  PROVE  \/ FirstSending /\ ~ FirstSending'
         \/ \A c \in Channel : RowMove(c)
<1>0. pub \in [Channel -> PublicationStatus] /\ tasks \subseteq Task
  BY DEF TypeOK
<1>1. ASSUME pub' = pub PROVE \A c \in Channel : RowMove(c)
  BY <1>1 DEF RowMove
<1>2. ASSUME NEW id \in JobKey, Start(id) \/ Publish(id) \/ Break(id) PROVE pub' = pub
  BY <1>2 DEF Start, Publish, Break, rows
<1>3. ASSUME NEW e \in events, Deliver(e) PROVE \A c \in Channel : RowMove(c)
  BY <1>3, HandleMoves DEF Deliver
<1>4. ASSUME NEW t \in tasks, AutoDistribute(t)
      PROVE  FirstSending /\ ~ FirstSending'
  <2>1. t.do = "auto" /\ status' = status
    BY <1>4 DEF AutoDistribute
  <2>2. status # "center_approved"
    BY <2>1 DEF FirstSend
  <2>3. \A u \in tasks' : u.do # "auto"
    <3>1. ASSUME NEW u \in tasks', u.do = "auto" PROVE FALSE
      <4>1. u \in tasks /\ u # t
        BY <1>4, <3>1 DEF AutoDistribute, Enqueue
      <4>2. u = [do |-> "auto", by |-> "user"] /\ t = [do |-> "auto", by |-> "user"]
        BY <2>1, <3>1, <4>1, AutoIsOne
      <4>3. QED
        BY <4>1, <4>2
    <3>2. QED
      BY <3>1
  <2>4. QED
    BY <2>1, <2>2, <2>3 DEF FirstSending
<1>5. ASSUME NEW t \in tasks,
             Summarize(t) \/ Hop(t) \/ EnqueueStep(t) \/ Reload(t) \/ TakeDown(t)
      PROVE  pub' = pub
  BY <1>5 DEF Summarize, Hop, EnqueueStep, Reload, TakeDown, rows
<1>6. ASSUME NEW t \in tasks, CommitRetryPublication(t) PROVE \A c \in Channel : RowMove(c)
  BY <1>0, <1>6 DEF CommitRetryPublication, RowMove, rows
<1>7. ASSUME NEW t \in tasks, RequeueFailed(t) PROVE \A c \in Channel : RowMove(c)
  BY <1>0, <1>7 DEF RequeueFailed, RowMove
<1>8. ASSUME NEW t \in tasks, CommitRetract(t) PROVE \A c \in Channel : RowMove(c)
  BY <1>0, <1>8 DEF CommitRetract, RowMove
<1>9. CASE ScanJob
  BY <1>9, HandleMoves DEF ScanJob
<1>10. CASE Distribute
  <2>1. status = "center_approved" /\ status' = "publishing"
    BY <1>10 DEF Distribute
  <2>2. \A u \in tasks' : u.do # "auto"
    BY <1>10, <2>1 DEF Distribute, FirstSend, Enqueue
  <2>3. QED
    BY <2>1, <2>2 DEF FirstSending
<1>11. CASE ScanPhase \/ Retry \/ Cancel \/ Crash \/ Boot \/ UNCHANGED vars
  <2>1. pub' = pub
    BY <1>11 DEF ScanPhase, Retry, Cancel, Crash, Boot, rows, vars
  <2>2. QED
    BY <1>1, <2>1
<1>12. ASSUME NEW c \in Channel, RetryPublication(c) \/ Retract(c) PROVE pub' = pub
  BY <1>12 DEF RetryPublication, Retract, rows
<1>13. QED
  BY <1>1, <1>2, <1>3, <1>4, <1>5, <1>6, <1>7, <1>8, <1>9, <1>10, <1>11, <1>12
     DEF Next, Work, DeliverSome, TaskStep, ScanStep, Operator

\* What a step does to the content's status, and which tasks it may leave:
\* nobody asks for a first send again, and the hop to published is decided
\* by a summary that finds every relevant publication published.
LEMMA StatusMoves ==
  ASSUME TypeOK, [Next]_vars
  PROVE  /\ status' = "center_approved" => status = "center_approved"
         /\ status' = "published" =>
              \/ status = "published"
              \/ \E t \in tasks : t.do = "hop" /\ t.to = "published"
         /\ \A t \in tasks' : t.do = "auto" => t \in tasks
         /\ \A t \in tasks' : t.do = "hop" /\ t.to = "published" =>
              t \in tasks \/ (AllPublished /\ pub' = pub)
<1> DEFINE Goal ==
             /\ status' = "center_approved" => status = "center_approved"
             /\ status' = "published" =>
                  \/ status = "published"
                  \/ \E t \in tasks : t.do = "hop" /\ t.to = "published"
             /\ \A t \in tasks' : t.do = "auto" => t \in tasks
             /\ \A t \in tasks' : t.do = "hop" /\ t.to = "published" =>
                  t \in tasks \/ (AllPublished /\ pub' = pub)
<1>0. tasks \subseteq Task
  BY DEF TypeOK
<1>1. ASSUME NEW id \in JobKey, Start(id) \/ Publish(id) \/ Break(id) PROVE Goal
  BY <1>1 DEF Start, Publish, Break, rows
<1>2. ASSUME NEW name, NEW id, NEW by, Handle(name, id, by), status' = status PROVE Goal
  BY <1>2 DEF Handle
<1>3. ASSUME NEW e \in events, Deliver(e) PROVE Goal
  BY <1>2, <1>3 DEF Deliver
<1>4. ASSUME NEW t \in tasks, Summarize(t) PROVE Goal
  BY <1>4 DEF Summarize, Verdict, rows
<1>5. ASSUME NEW t \in tasks, Hop(t) PROVE Goal
  <2>1. t.to \in {"published", "publish_failed"}
    BY <1>0, <1>5 DEF Hop, Task
  <2>2. QED
    BY <1>5, <2>1 DEF Hop
<1>6. ASSUME NEW t \in tasks, EnqueueStep(t) \/ Reload(t) \/ TakeDown(t) PROVE Goal
  <2>1. status' = status
    BY <1>6 DEF EnqueueStep, Reload, TakeDown, rows
  <2>2. \A u \in tasks' : u \in tasks \/ u.do \in {"requeue", "retract"}
    <3>1. CASE EnqueueStep(t)
      BY <3>1 DEF EnqueueStep
    <3>2. CASE Reload(t)
      BY <3>2 DEF Reload
    <3>3. CASE TakeDown(t)
      <4> DEFINE new == [do |-> "retract", channel |-> t.channel, by |-> "user"]
      <4>1. tasks' = (tasks \ {t}) \union {new} /\ new.do = "retract"
        BY <3>3 DEF TakeDown
      <4> HIDE DEF new
      <4>2. QED
        BY <4>1
    <3>4. QED
      BY <1>6, <3>1, <3>2, <3>3
  <2>3. QED
    BY <2>1, <2>2
<1>7. ASSUME NEW t \in tasks, AutoDistribute(t) PROVE Goal
  BY <1>7 DEF AutoDistribute, Enqueue
<1>8. ASSUME NEW t \in tasks, CommitRetryPublication(t) PROVE Goal
  BY <1>8 DEF CommitRetryPublication, Enqueue, rows
<1>9. ASSUME NEW t \in tasks, RequeueFailed(t) PROVE Goal
  BY <1>9 DEF RequeueFailed, Enqueue
<1>10. ASSUME NEW t \in tasks, CommitRetract(t) PROVE Goal
  BY <1>10 DEF CommitRetract
<1>11. CASE ScanJob
  BY <1>2, <1>11 DEF ScanJob
<1>12. CASE Distribute
  BY <1>12 DEF Distribute, Enqueue
<1>13. CASE Retry
  BY <1>13 DEF Retry
<1>14. CASE ScanPhase \/ Cancel \/ Boot \/ UNCHANGED vars
  BY <1>14 DEF ScanPhase, Cancel, Boot, rows, vars
<1>15. CASE Crash
  BY <1>15 DEF Crash, rows
<1>16. ASSUME NEW c \in Channel, RetryPublication(c) \/ Retract(c) PROVE Goal
  <2>1. status' = status
    BY <1>16 DEF RetryPublication, Retract, rows
  <2>2. \A u \in tasks' : u \in tasks \/ u.do \in {"retry", "takedown"}
    <3>1. CASE RetryPublication(c)
      <4> DEFINE new == [do |-> "retry", channel |-> c, seen |-> status, by |-> "user"]
      <4>1. tasks' = tasks \union {new} /\ new.do = "retry"
        BY <3>1 DEF RetryPublication
      <4> HIDE DEF new
      <4>2. QED
        BY <4>1
    <3>2. CASE Retract(c)
      <4> DEFINE new == [do |-> "takedown", channel |-> c, by |-> "user"]
      <4>1. tasks' = tasks \union {new} /\ new.do = "takedown"
        BY <3>2 DEF Retract
      <4> HIDE DEF new
      <4>2. QED
        BY <4>1
    <3>3. QED
      BY <1>16, <3>1, <3>2
  <2>3. QED
    BY <2>1, <2>2
<1>17. QED
  BY <1>1, <1>3, <1>4, <1>5, <1>6, <1>7, <1>8, <1>9, <1>10, <1>11, <1>12, <1>13, <1>14,
     <1>15, <1>16
     DEF Next, Work, DeliverSome, TaskStep, ScanStep, Operator

-------------------------------------------------------------------------------
(* What is published is complete, across crashes *)

\* The first content, approved or publishing by itself, has sent nothing.
LEMMA InitSendInv == Init => SendInv
<1> SUFFICES ASSUME Init PROVE SendInv
  OBVIOUS
<1>1. TypeOK
  BY InitTypeOK
<1>2. FirstSend
  BY DEF Init, FirstSend
<1>3. CompleteIsFinal
  BY DEF Init, CompleteIsFinal
<1>4. QED
  BY <1>1, <1>2, <1>3 DEF SendInv

\* A complete content stays complete: no operation sends a channel again
\* that has its post, and none creates a row after the first send.
LEMMA NextSendInv == SendInv /\ [Next]_vars => SendInv'
<1> SUFFICES ASSUME SendInv, [Next]_vars PROVE SendInv'
  OBVIOUS
<1>0. TypeOK /\ FirstSend /\ CompleteIsFinal /\ TypeOK'
  BY NextTypeOK DEF SendInv
<1>1. FirstSending' => FirstSending
  BY <1>0, StatusMoves DEF FirstSending
<1>2. (\A c \in Channel : pub[c] = "none") /\ (\A c \in Channel : RowMove(c))
        => \A c \in Channel : pub'[c] = "none"
  BY DEF RowMove, Pending
<1>3. FirstSend'
  <2>1. FirstSending' => \A c \in Channel : pub'[c] = "none"
    BY <1>0, <1>1, <1>2, RowsMove DEF FirstSend, FirstSending
  <2>2. status' = "center_approved" => \A t \in tasks' : t.do # "auto"
    BY <1>0, StatusMoves DEF FirstSend
  <2>3. QED
    BY <2>1, <2>2 DEF FirstSend, FirstSending
<1>4. Complete => Complete'
  <2> SUFFICES ASSUME Complete PROVE Complete'
    OBVIOUS
  <2>1. ~ FirstSending
    BY <1>0 DEF Complete, FirstSend, FirstSending
  <2>2. \A c \in Channel : RowMove(c)
    BY <1>0, <2>1, RowsMove
  <2>3. QED
    BY <2>2 DEF Complete, RowMove, Pending
<1>5. AllPublished /\ pub' = pub => Complete'
  BY <1>0 DEF AllPublished, Relevant, Complete, TypeOK, PublicationStatus
<1>6. CompleteIsFinal'
  BY <1>0, <1>4, <1>5, StatusMoves DEF CompleteIsFinal
<1>7. QED
  BY <1>0, <1>3, <1>6 DEF SendInv

\* A content is reported as published only when every channel it was sent to
\* has it or had it until it was retracted, for any channels, retries,
\* retractions and crashes (onPublishCompleted, summarizeForContent).
THEOREM PublishedContentIsComplete == Spec => []PublishedIsComplete
<1>1. SendInv => PublishedIsComplete
  BY DEF SendInv, CompleteIsFinal, Complete, PublishedIsComplete
<1>2. QED
  BY InitSendInv, NextSendInv, <1>1, PTL DEF Spec

-------------------------------------------------------------------------------
(* Carriers, while the api does not crash *)

\* A step that adds no carrier, and moves no row out of pending that is still
\* carried, keeps the discipline.
LEMMA CarriersShrink ==
  ASSUME CarriedArePending, OneCarrier,
         \A id \in JobKey, c \in Channel : Carries(id, c)' => Carries(id, c),
         \A t \in tasks' : t.do = "enqueue" => t \in tasks,
         \A c \in Channel :
           \/ pub'[c] = pub[c]
           \/ Pending(c)'
           \/ (\A id \in JobKey : ~ Carries(id, c)') /\ (\A t \in tasks' : ~ Hands(t, c))
  PROVE  CarriedArePending' /\ OneCarrier'
<1>1. \A t \in tasks' : \A c \in Channel : Hands(t, c) => t \in tasks
  BY DEF Hands
<1>2. CarriedArePending'
  BY <1>1 DEF CarriedArePending, Pending, Hands
<1>3. OneCarrier'
  BY <1>1 DEF OneCarrier, Hands
<1>4. QED
  BY <1>2, <1>3

\* A request that queues rows nobody carries, and takes them over, is their
\* only carrier (distribute, retryPublication, requeueFailedForContent).
LEMMA CarrierAdded ==
  ASSUME TypeOK, CarriedArePending, OneCarrier,
         NEW targets \in JobKey, NEW rest \in SUBSET tasks,
         \A c \in targets : ~ Pending(c),
         pub' = [c \in Channel |-> IF c \in targets THEN "queued" ELSE pub[c]],
         tasks' = rest \union {Enqueue(targets)},
         UNCHANGED <<job, events>>
  PROVE  CarriedArePending' /\ OneCarrier'
<1>1. \A id \in JobKey, c \in Channel : Carries(id, c)' <=> Carries(id, c)
  BY DEF Carries
<1>2. \A u \in tasks', c \in Channel :
        Hands(u, c) <=> (u \in tasks /\ Hands(u, c)) \/ (u = Enqueue(targets) /\ c \in targets)
  BY DEF Hands, Enqueue
<1>3. \A c \in targets : /\ \A id \in JobKey : ~ Carries(id, c)
                         /\ \A u \in tasks : ~ Hands(u, c)
  BY DEF CarriedArePending, JobKey
<1>4. CarriedArePending'
  BY <1>1, <1>2 DEF CarriedArePending, Pending, Hands
<1>5. OneCarrier'
  BY <1>1, <1>2, <1>3 DEF OneCarrier, Hands
<1>6. QED
  BY <1>4, <1>5

\* A running job is a carrier of every channel in it.
LEMMA ActiveCarries ==
  ASSUME TypeOK, CarriedArePending, NEW id \in JobKey, NEW c \in job[id].targets,
         job[id].state \in {"waiting", "active"}
  PROVE  c \in Channel /\ Carries(id, c) /\ Pending(c)
<1>1. c \in Channel
  BY DEF TypeOK, Job
<1>2. Carries(id, c)
  BY DEF Carries
<1>3. QED
  BY <1>1, <1>2 DEF CarriedArePending

\* The worker takes a job and ends it: the job, and then the announcement of
\* its end, is the carrier (the in-process worker).
LEMMA WorkKeepsCarriers ==
  ASSUME TypeOK, CarriedArePending, OneCarrier,
         NEW id \in JobKey, Start(id) \/ Publish(id) \/ Break(id)
  PROVE  CarriedArePending' /\ OneCarrier'
<1>1. PICK state \in {"active", "completed", "failed"} :
        /\ \A k \in JobKey : k # id => job'[k] = job[k]
        /\ job'[id].state = state /\ job'[id].targets = job[id].targets
        /\ job[id].state \in {"waiting", "active"}
        /\ events' = events \union {[name |-> state, id |-> id]}
        /\ pub' = pub /\ tasks' = tasks
  <2>0. job \in [JobKey -> Job] /\ job[id] \in Job
    BY DEF TypeOK
  <2>1. CASE Start(id)
    <3>1. WITNESS "active" \in {"active", "completed", "failed"}
    <3>2. QED
      BY <2>0, <2>1 DEF Start, Announce, rows, Job
  <2>2. CASE Publish(id)
    <3>1. WITNESS "completed" \in {"active", "completed", "failed"}
    <3>2. PICK ok : job' = [job EXCEPT ![id].state = "completed", ![id].ok = ok]
      BY <2>2 DEF Publish
    <3>3. /\ \A k \in JobKey : k # id => job'[k] = job[k]
          /\ job'[id] = [[job[id] EXCEPT !.state = "completed"] EXCEPT !.ok = ok]
      BY <2>0, <3>2
    <3>4. job'[id].state = "completed" /\ job'[id].targets = job[id].targets
      BY <2>0, <3>3 DEF Job
    <3>5. QED
      BY <2>2, <3>3, <3>4 DEF Publish, Announce, rows
  <2>3. CASE Break(id)
    <3>1. WITNESS "failed" \in {"active", "completed", "failed"}
    <3>2. QED
      BY <2>0, <2>3 DEF Break, Announce, rows, Job
  <2>4. QED
    BY <2>1, <2>2, <2>3
<1>2. ASSUME NEW k \in JobKey, NEW c \in Channel, Carries(k, c)' PROVE Carries(k, c)
  <2>1. CASE k = id
    BY <1>1, <1>2, <2>1 DEF Carries
  <2>2. CASE k # id
    <3>1. job'[k] = job[k]
      BY <1>1, <2>2
    <3>2. [name |-> job[k].state, id |-> k] \in events' => [name |-> job[k].state, id |-> k] \in events
      <4>1. [name |-> job[k].state, id |-> k].id = k /\ [name |-> state, id |-> id].id = id
        OBVIOUS
      <4>2. QED
        BY <1>1, <2>2, <4>1
    <3>3. QED
      BY <1>2, <3>1, <3>2 DEF Carries
  <2>3. QED
    BY <2>1, <2>2
<1>3. QED
  BY <1>1, <1>2, CarriersShrink

\* When the end of a job is handled its announcement is gone, so nobody
\* carries the rows that are resolved; a late start leaves them pending
\* (initDistributionListeners, onPublishCompleted, onPublishFailed).
LEMMA DeliverKeepsCarriers ==
  ASSUME TypeOK, CarriedArePending, OneCarrier, NEW e \in events, Deliver(e)
  PROVE  CarriedArePending' /\ OneCarrier'
<1>0. /\ pub \in [Channel -> PublicationStatus]
      /\ e \in [name : {"active", "completed", "failed"}, id : JobKey]
      /\ job' = job /\ events' = events \ {e}
      /\ Handle(e.name, e.id, "event")
  BY DEF TypeOK, Deliver
<1>1. e.id \in JobKey /\ e = [name |-> e.name, id |-> e.id]
  BY <1>0
<1>2. \A id \in JobKey, c \in Channel : Carries(id, c)' => Carries(id, c)
  BY <1>0 DEF Carries
<1>3. \A t \in tasks' : t.do = "enqueue" => t \in tasks
  BY <1>0 DEF Handle
<1>4. CASE pub' = Begun(job[e.id].targets)
  <2>1. \A c \in Channel : pub'[c] = pub[c] \/ Pending(c)'
    BY <1>0, <1>4 DEF Begun, Pending
  <2>2. QED
    BY <1>2, <1>3, <2>1, CarriersShrink
<1>5. CASE e.name # "active" /\ job[e.id].state = e.name
           /\ pub' = Resolved(job[e.id].targets, job[e.id].ok)
  <2>1. ASSUME NEW c \in Channel, c \in job[e.id].targets
        PROVE  (\A id \in JobKey : ~ Carries(id, c)') /\ (\A t \in tasks' : ~ Hands(t, c))
    <3>1. Carries(e.id, c)
      BY <1>0, <1>1, <1>5, <2>1 DEF Carries
    <3>2. \A id \in JobKey : id # e.id => ~ Carries(id, c)
      BY <1>1, <3>1 DEF OneCarrier
    <3>3. ~ Carries(e.id, c)'
      <4>1. [name |-> job[e.id].state, id |-> e.id] \notin events'
        BY <1>0, <1>1, <1>5
      <4>2. job'[e.id].state \notin {"waiting", "active"}
        BY <1>0, <1>5
      <4>3. QED
        BY <1>0, <4>1, <4>2 DEF Carries
    <3>4. \A t \in tasks' : ~ Hands(t, c)
      BY <1>1, <1>3, <3>1 DEF OneCarrier, Hands
    <3>5. QED
      BY <1>2, <3>2, <3>3, <3>4
  <2>2. \A c \in Channel : c \notin job[e.id].targets => pub'[c] = pub[c]
    BY <1>0, <1>5 DEF Resolved
  <2>3. QED
    BY <1>2, <1>3, <2>1, <2>2, CarriersShrink
<1>6. CASE pub' = pub
  BY <1>2, <1>3, <1>6, CarriersShrink
<1>7. QED
  BY <1>0, <1>4, <1>5, <1>6 DEF Handle

\* Adding the job hands its channels from the request to the job
\* (enqueuePublish).
LEMMA EnqueueKeepsCarriers ==
  ASSUME TypeOK, CarriedArePending, OneCarrier, NEW t \in tasks, EnqueueStep(t)
  PROVE  CarriedArePending' /\ OneCarrier'
<1>0. /\ t.do = "enqueue" /\ tasks' = tasks \ {t}
      /\ pub' = pub /\ events' = events
      /\ job \in [JobKey -> Job]
      /\ t.targets \in JobKey
  <2>1. t.targets \in JobKey
    BY DEF EnqueueStep, TypeOK, Task
  <2>2. QED
    BY <2>1 DEF EnqueueStep, TypeOK, rows
<1>1. CASE job' = job
  <2>1. \A id \in JobKey, c \in Channel : Carries(id, c)' => Carries(id, c)
    BY <1>0, <1>1 DEF Carries
  <2>2. QED
    BY <1>0, <2>1, CarriersShrink
<1>2. CASE job' # job
  <2>1. job' = [job EXCEPT ![t.targets] = [state |-> "waiting", targets |-> t.targets, ok |-> {}]]
    BY <1>2 DEF EnqueueStep, Add, PublishJobId
  <2>2. ASSUME NEW id \in JobKey, NEW c \in Channel, Carries(id, c)'
        PROVE  Carries(id, c) \/ (id = t.targets /\ Hands(t, c))
    <3>1. CASE id = t.targets
      BY <1>0, <2>1, <2>2, <3>1 DEF Carries, Hands
    <3>2. CASE id # t.targets
      BY <1>0, <2>1, <2>2, <3>2 DEF Carries
    <3>3. QED
      BY <3>1, <3>2
  <2>3. CarriedArePending'
    BY <1>0, <2>2 DEF CarriedArePending, Pending, Hands
  <2>4. OneCarrier'
    <3>1. ASSUME NEW c \in Channel, NEW id \in JobKey, NEW other \in JobKey,
                 Carries(id, c)', Carries(other, c)'
          PROVE  id = other
      BY <2>2, <3>1 DEF OneCarrier
    <3>2. ASSUME NEW c \in Channel, NEW id \in JobKey, NEW u \in tasks',
                 Carries(id, c)', Hands(u, c)
          PROVE  FALSE
      BY <1>0, <2>2, <3>2 DEF OneCarrier
    <3>3. \A c \in Channel : \A u, v \in tasks' : Hands(u, c) /\ Hands(v, c) => u = v
      BY <1>0 DEF OneCarrier
    <3>4. QED
      BY <3>1, <3>2, <3>3 DEF OneCarrier, Hands
  <2>5. QED
    BY <2>3, <2>4
<1>3. QED
  BY <1>1, <1>2

\* Every step of an undisturbed system keeps the discipline.
LEMMA NextCarriers ==
  ASSUME SendInv, CarriedArePending, OneCarrier, Undisturbed, [Next]_vars, ~ Crash
  PROVE  CarriedArePending' /\ OneCarrier'
<1>0. /\ TypeOK /\ FirstSend
      /\ pub \in [Channel -> PublicationStatus]
      /\ tasks \subseteq Task
  BY DEF SendInv, TypeOK
<1>1. ASSUME pub' = pub, job' = job, events' = events,
             \A t \in tasks' : t.do = "enqueue" => t \in tasks
      PROVE  CarriedArePending' /\ OneCarrier'
  <2>1. \A id \in JobKey, c \in Channel : Carries(id, c)' => Carries(id, c)
    BY <1>1 DEF Carries
  <2>2. QED
    BY <1>1, <2>1, CarriersShrink
<1>2. ASSUME FirstSending, NEW targets \in JobKey, NEW rest \in SUBSET tasks,
             CreateQueued(targets), tasks' = rest \union {Enqueue(targets)}, UNCHANGED queue
      PROVE  CarriedArePending' /\ OneCarrier'
  <2>1. \A c \in targets : ~ Pending(c)
    BY <1>0, <1>2 DEF FirstSend, FirstSending, Pending, JobKey
  <2>2. QED
    BY <1>0, <1>2, <2>1, CarrierAdded DEF CreateQueued, queue
<1>3. ASSUME NEW id \in JobKey, Start(id) \/ Publish(id) \/ Break(id)
      PROVE  CarriedArePending' /\ OneCarrier'
  BY <1>0, <1>3, WorkKeepsCarriers
<1>4. ASSUME NEW e \in events, Deliver(e) PROVE CarriedArePending' /\ OneCarrier'
  BY <1>0, <1>4, DeliverKeepsCarriers
<1>5. ASSUME NEW t \in tasks, EnqueueStep(t) PROVE CarriedArePending' /\ OneCarrier'
  BY <1>0, <1>5, EnqueueKeepsCarriers
<1>6. ASSUME NEW t \in tasks, Summarize(t) \/ Hop(t)
      PROVE  CarriedArePending' /\ OneCarrier'
  <2>1. \A u \in tasks' : u.do = "enqueue" => u \in tasks
    BY <1>6 DEF Summarize, Hop
  <2>2. pub' = pub /\ job' = job /\ events' = events
    BY <1>6 DEF Summarize, Hop, rows, queue
  <2>3. QED
    BY <1>1, <2>1, <2>2
<1>7. ASSUME NEW t \in tasks, Reload(t) PROVE CarriedArePending' /\ OneCarrier'
  BY <1>1, <1>7 DEF Reload, rows, queue
<1>8. ASSUME NEW t \in tasks, TakeDown(t) PROVE CarriedArePending' /\ OneCarrier'
  <2> DEFINE new == [do |-> "retract", channel |-> t.channel, by |-> "user"]
  <2>1. /\ tasks' = (tasks \ {t}) \union {new} /\ new.do = "retract"
        /\ pub' = pub /\ job' = job /\ events' = events
    BY <1>8 DEF TakeDown, rows, queue
  <2> HIDE DEF new
  <2>2. \A u \in tasks' : u.do = "enqueue" => u \in tasks
    BY <2>1
  <2>3. QED
    BY <1>1, <2>1, <2>2
<1>9. ASSUME NEW t \in tasks, AutoDistribute(t) PROVE CarriedArePending' /\ OneCarrier'
  <2>1. FirstSending
    BY <1>9 DEF AutoDistribute, FirstSending
  <2>2. CASE tasks' = tasks \ {t} /\ UNCHANGED pub
    BY <1>1, <1>9, <2>2 DEF AutoDistribute, queue
  <2>3. CASE \E targets \in JobKey :
               CreateQueued(targets) /\ tasks' = (tasks \ {t}) \union {Enqueue(targets)}
    BY <1>2, <1>9, <2>1, <2>3 DEF AutoDistribute
  <2>4. QED
    BY <1>9, <2>2, <2>3 DEF AutoDistribute
<1>10. ASSUME NEW t \in tasks, CommitRetryPublication(t)
       PROVE  CarriedArePending' /\ OneCarrier'
  <2>0. t.channel \in Channel /\ job' = job /\ events' = events
    BY <1>0, <1>10 DEF CommitRetryPublication, Task, queue
  <2>1. CASE pub[t.channel] = "failed"
    <3>1. /\ {t.channel} \in JobKey
          /\ \A c \in {t.channel} : ~ Pending(c)
      BY <2>0, <2>1 DEF JobKey, Pending
    <3>2. /\ pub' = [c \in Channel |-> IF c \in {t.channel} THEN "queued" ELSE pub[c]]
          /\ tasks' = (tasks \ {t}) \union {Enqueue({t.channel})}
      BY <1>0, <1>10, <2>1 DEF CommitRetryPublication
    <3>3. QED
      BY <1>0, <2>0, <3>1, <3>2, CarrierAdded
  <2>2. CASE pub[t.channel] # "failed"
    BY <1>1, <1>10, <2>0, <2>2 DEF CommitRetryPublication, rows
  <2>3. QED
    BY <2>1, <2>2
<1>11. ASSUME NEW t \in tasks, RequeueFailed(t) PROVE CarriedArePending' /\ OneCarrier'
  <2> DEFINE failed == {c \in Channel : pub[c] = "failed"}
  <2>1. /\ job' = job /\ events' = events
        /\ pub' = [c \in Channel |-> IF c \in failed THEN "queued" ELSE pub[c]]
        /\ tasks' = (tasks \ {t}) \union (IF failed = {} THEN {} ELSE {Enqueue(failed)})
    BY <1>11 DEF RequeueFailed, queue
  <2>2. CASE failed = {}
    <3>1. pub' = pub /\ tasks' = tasks \ {t}
      BY <1>0, <2>1, <2>2
    <3>2. QED
      BY <1>1, <2>1, <3>1
  <2>3. CASE failed # {}
    <3>1. failed \in JobKey
      BY <2>3 DEF JobKey
    <3>2. \A c \in failed : ~ Pending(c)
      BY DEF Pending
    <3>3. tasks' = (tasks \ {t}) \union {Enqueue(failed)}
      BY <2>1, <2>3
    <3> HIDE DEF failed
    <3>4. QED
      BY <1>0, <2>1, <3>1, <3>2, <3>3, CarrierAdded
  <2>4. QED
    BY <2>2, <2>3
<1>12. ASSUME NEW t \in tasks, CommitRetract(t) PROVE CarriedArePending' /\ OneCarrier'
  <2>1. /\ \A id \in JobKey, c \in Channel : Carries(id, c)' => Carries(id, c)
        /\ \A u \in tasks' : u.do = "enqueue" => u \in tasks
    BY <1>12 DEF CommitRetract, Carries, queue
  <2>2. ASSUME NEW c \in Channel, pub'[c] # pub[c]
        PROVE  (\A id \in JobKey : ~ Carries(id, c)') /\ (\A u \in tasks' : ~ Hands(u, c))
    <3>1. ~ Pending(c)
      BY <1>0, <1>12, <2>2 DEF CommitRetract, Pending
    <3>2. QED
      BY <2>1, <3>1 DEF CarriedArePending, Hands
  <2>3. QED
    BY <2>1, <2>2, CarriersShrink
<1>13. CASE Distribute
  <2>1. FirstSending
    BY <1>13 DEF Distribute, FirstSending
  <2>2. PICK targets \in JobKey :
          CreateQueued(targets) /\ tasks' = tasks \union {Enqueue(targets)}
    BY <1>13 DEF Distribute
  <2>3. QED
    BY <1>2, <1>13, <2>1, <2>2 DEF Distribute
<1>14. CASE Retry
  BY <1>1, <1>14 DEF Retry, queue
<1>15. CASE Cancel \/ UNCHANGED vars
  BY <1>1, <1>15 DEF Cancel, queue, rows, vars
<1>16. ASSUME NEW c \in Channel, RetryPublication(c) PROVE CarriedArePending' /\ OneCarrier'
  <2> DEFINE new == [do |-> "retry", channel |-> c, seen |-> status, by |-> "user"]
  <2>1. /\ tasks' = tasks \union {new} /\ new.do = "retry"
        /\ pub' = pub /\ job' = job /\ events' = events
    BY <1>16 DEF RetryPublication, rows, queue
  <2> HIDE DEF new
  <2>2. QED
    BY <1>1, <2>1
<1>17. ASSUME NEW c \in Channel, Retract(c) PROVE CarriedArePending' /\ OneCarrier'
  <2> DEFINE new == [do |-> "takedown", channel |-> c, by |-> "user"]
  <2>1. /\ tasks' = tasks \union {new} /\ new.do = "takedown"
        /\ pub' = pub /\ job' = job /\ events' = events
    BY <1>17 DEF Retract, rows, queue
  <2> HIDE DEF new
  <2>2. QED
    BY <1>1, <2>1
<1>18. ~ Boot /\ ~ ScanJob /\ ~ ScanPhase
  BY DEF Undisturbed, Boot, ScanJob, ScanPhase, NoScan
<1>19. QED
  BY <1>3, <1>4, <1>5, <1>6, <1>7, <1>8, <1>9, <1>10, <1>11, <1>12, <1>13, <1>14, <1>15,
     <1>16, <1>17, <1>18
     DEF Next, Work, DeliverSome, TaskStep, ScanStep, Operator

-------------------------------------------------------------------------------
(* Retractions, while the api does not crash *)

\* What steps do to retractions under way and to the posts: a retraction is
\* asked for of a published row, its second half follows the first, posts
\* appear only for pending rows, and rows become retracted only by the second
\* half (retractPublication, the worker).
LEMMA RetractionMoves ==
  ASSUME SendInv, CarriedArePending, Undisturbed, [Next]_vars, ~ Crash
  PROVE  /\ \A t \in tasks' : t.do = "takedown" =>
              t \in tasks \/ pub[t.channel] = "published"
         /\ \A t \in tasks' : t.do = "retract" =>
              \/ t \in tasks
              \/ t.channel \notin onAir' /\ \E u \in tasks : u.do = "takedown" /\ u.channel = t.channel
         /\ \A c \in onAir' : c \in onAir \/ Pending(c)
         /\ \A c \in Channel : pub'[c] = "retracted" =>
              \/ pub[c] = "retracted"
              \/ \E t \in tasks : t.do = "retract" /\ t.channel = c
<1> DEFINE Asked == \A t \in tasks' : t.do = "takedown" =>
                      t \in tasks \/ pub[t.channel] = "published"
           Down == \A t \in tasks' : t.do = "retract" =>
                     \/ t \in tasks
                     \/ /\ t.channel \notin onAir'
                        /\ \E u \in tasks : u.do = "takedown" /\ u.channel = t.channel
           Posted == \A c \in onAir' : c \in onAir \/ Pending(c)
           Recorded == \A c \in Channel : pub'[c] = "retracted" =>
                         \/ pub[c] = "retracted"
                         \/ \E t \in tasks : t.do = "retract" /\ t.channel = c
           Goal == Asked /\ Down /\ Posted /\ Recorded
<1>0. /\ TypeOK /\ FirstSend
      /\ pub \in [Channel -> PublicationStatus]
      /\ tasks \subseteq Task
  BY DEF SendInv, TypeOK
<1>1. ASSUME \A t \in tasks' : t.do = "takedown" \/ t.do = "retract" => t \in tasks
      PROVE  Asked /\ Down
  BY <1>1
<1>2. ASSUME onAir' = onAir PROVE Posted
  BY <1>2
<1>3. ASSUME pub' = pub PROVE Recorded
  BY <1>3
<1>4. ASSUME NEW id \in JobKey, Start(id) \/ Break(id) PROVE Goal
  BY <1>1, <1>2, <1>3, <1>4 DEF Start, Break, rows
<1>5. ASSUME NEW id \in JobKey, Publish(id) PROVE Goal
  <2>1. PICK ok \in SUBSET job[id].targets : onAir' = onAir \union ok
    BY <1>5 DEF Publish
  <2>2. Posted
    BY <1>0, <1>5, <2>1, ActiveCarries DEF Publish
  <2>3. Asked /\ Down /\ Recorded
    BY <1>1, <1>3, <1>5 DEF Publish, rows
  <2>4. QED
    BY <2>2, <2>3
<1>6. ASSUME NEW e \in events, Deliver(e) PROVE Goal
  <2>1. \A t \in tasks' : t.do = "takedown" \/ t.do = "retract" => t \in tasks
    BY <1>6 DEF Deliver, Handle
  <2>2. Recorded
    <3>1. \A c \in Channel : pub'[c] \in {pub[c], "publishing", "published", "failed"}
      BY <1>0, <1>6 DEF Deliver, Handle, Begun, Resolved
    <3>2. QED
      BY <3>1
  <2>3. QED
    BY <1>1, <1>2, <1>6, <2>1, <2>2 DEF Deliver
<1>7. ASSUME NEW t \in tasks, Summarize(t) \/ Hop(t) PROVE Goal
  <2>1. \A u \in tasks' : u.do = "takedown" \/ u.do = "retract" => u \in tasks
    BY <1>7 DEF Summarize, Hop
  <2>2. pub' = pub /\ onAir' = onAir
    BY <1>7 DEF Summarize, Hop, rows
  <2>3. QED
    BY <1>1, <1>2, <1>3, <2>1, <2>2
<1>8. ASSUME NEW t \in tasks, EnqueueStep(t) \/ Reload(t) PROVE Goal
  <2>1. \A u \in tasks' : u.do = "takedown" \/ u.do = "retract" => u \in tasks
    <3>1. CASE EnqueueStep(t)
      BY <3>1 DEF EnqueueStep
    <3>2. CASE Reload(t)
      BY <3>2 DEF Reload
    <3>3. QED
      BY <1>8, <3>1, <3>2
  <2>2. pub' = pub /\ onAir' = onAir
    BY <1>8 DEF EnqueueStep, Reload, rows
  <2>3. QED
    BY <1>1, <1>2, <1>3, <2>1, <2>2
<1>9. ASSUME NEW targets \in JobKey, CreateQueued(targets) PROVE Recorded
  BY <1>0, <1>9 DEF CreateQueued
<1>10. ASSUME NEW t \in tasks, AutoDistribute(t) PROVE Goal
  <2>1. \A u \in tasks' : u.do = "takedown" \/ u.do = "retract" => u \in tasks
    BY <1>10 DEF AutoDistribute, Enqueue
  <2>2. Recorded
    BY <1>3, <1>9, <1>10 DEF AutoDistribute
  <2>3. QED
    BY <1>1, <1>2, <1>10, <2>1, <2>2 DEF AutoDistribute
<1>11. ASSUME NEW t \in tasks, CommitRetryPublication(t) PROVE Goal
  <2>1. \A u \in tasks' : u.do = "takedown" \/ u.do = "retract" => u \in tasks
    BY <1>11 DEF CommitRetryPublication, Enqueue
  <2>2. Recorded
    BY <1>0, <1>11 DEF CommitRetryPublication, rows
  <2>3. QED
    BY <1>1, <1>2, <1>11, <2>1, <2>2 DEF CommitRetryPublication
<1>12. ASSUME NEW t \in tasks, RequeueFailed(t) PROVE Goal
  <2>1. \A u \in tasks' : u.do = "takedown" \/ u.do = "retract" => u \in tasks
    BY <1>12 DEF RequeueFailed, Enqueue
  <2>2. Recorded
    BY <1>0, <1>12 DEF RequeueFailed
  <2>3. QED
    BY <1>1, <1>2, <1>12, <2>1, <2>2 DEF RequeueFailed
<1>13. ASSUME NEW t \in tasks, TakeDown(t) PROVE Goal
  <2> DEFINE new == [do |-> "retract", channel |-> t.channel, by |-> "user"]
  <2>1. /\ tasks' = (tasks \ {t}) \union {new}
        /\ new.do = "retract" /\ new.channel = t.channel
        /\ t.do = "takedown"
        /\ onAir' = onAir \ {t.channel} /\ pub' = pub
    BY <1>13 DEF TakeDown, rows
  <2> HIDE DEF new
  <2>2. QED
    BY <2>1
<1>14. ASSUME NEW t \in tasks, CommitRetract(t) PROVE Goal
  <2>1. \A u \in tasks' : u \in tasks
    BY <1>14 DEF CommitRetract
  <2>2. Recorded
    BY <1>0, <1>14 DEF CommitRetract
  <2>3. QED
    BY <1>1, <1>2, <1>14, <2>1, <2>2 DEF CommitRetract
<1>15. CASE Distribute
  <2>1. \A u \in tasks' : u.do = "takedown" \/ u.do = "retract" => u \in tasks
    BY <1>15 DEF Distribute, Enqueue
  <2>2. Recorded
    BY <1>9, <1>15 DEF Distribute
  <2>3. QED
    BY <1>1, <1>2, <1>15, <2>1, <2>2 DEF Distribute
<1>16. CASE Retry
  BY <1>1, <1>2, <1>3, <1>16 DEF Retry
<1>17. CASE Cancel \/ UNCHANGED vars
  BY <1>1, <1>2, <1>3, <1>17 DEF Cancel, rows, vars
<1>18. ASSUME NEW c \in Channel, RetryPublication(c) PROVE Goal
  <2> DEFINE new == [do |-> "retry", channel |-> c, seen |-> status, by |-> "user"]
  <2>1. /\ tasks' = tasks \union {new} /\ new.do = "retry"
        /\ pub' = pub /\ onAir' = onAir
    BY <1>18 DEF RetryPublication, rows
  <2> HIDE DEF new
  <2>2. QED
    BY <1>1, <1>2, <1>3, <2>1
<1>19. ASSUME NEW c \in Channel, Retract(c) PROVE Goal
  <2> DEFINE new == [do |-> "takedown", channel |-> c, by |-> "user"]
  <2>1. /\ tasks' = tasks \union {new} /\ new.do = "takedown" /\ new.channel = c
        /\ pub[c] = "published"
        /\ pub' = pub /\ onAir' = onAir
    BY <1>19 DEF Retract, rows
  <2> HIDE DEF new
  <2>2. QED
    BY <2>1
<1>20. ~ Boot /\ ~ ScanJob /\ ~ ScanPhase
  BY DEF Undisturbed, Boot, ScanJob, ScanPhase, NoScan
<1>21. QED
  BY <1>4, <1>5, <1>6, <1>7, <1>8, <1>10, <1>11, <1>12, <1>13, <1>14, <1>15, <1>16, <1>17,
     <1>18, <1>19, <1>20
     DEF Next, Work, DeliverSome, TaskStep, ScanStep, Operator

\* A retraction under way stays one of a published row whose post nobody puts
\* back: a row that was published never becomes pending again.
LEMMA NextRetractionsStand ==
  ASSUME SendInv, CarriedArePending, RetractionsStand, Undisturbed, [Next]_vars, ~ Crash
  PROVE  RetractionsStand'
<1>0. TypeOK /\ FirstSend /\ TypeOK'
  BY NextTypeOK DEF SendInv
<1>1. \A t \in tasks \union tasks' : t.do \in {"takedown", "retract"} => t.channel \in Channel
  <2>1. \A t \in Task : t.do \in {"takedown", "retract"} => t.channel \in Channel
    BY DEF Task
  <2>2. QED
    BY <1>0, <2>1 DEF TypeOK
<1>2. ASSUME NEW c \in Channel, pub[c] \in {"published", "retracted"}
      PROVE  pub'[c] \in {"published", "retracted"} /\ ~ Pending(c)
  <2>1. ~ FirstSending
    BY <1>0, <1>2 DEF FirstSend, FirstSending
  <2>2. RowMove(c)
    BY <1>0, <2>1, RowsMove
  <2>3. QED
    BY <1>2, <2>2 DEF RowMove, Pending
<1>3. ASSUME NEW t \in tasks', t.do \in {"takedown", "retract"}
      PROVE  pub'[t.channel] \in {"published", "retracted"}
  <2>1. pub[t.channel] \in {"published", "retracted"}
    BY <1>3, RetractionMoves DEF RetractionsStand
  <2>2. QED
    BY <1>1, <1>2, <1>3, <2>1
<1>4. ASSUME NEW t \in tasks', t.do = "retract" PROVE t.channel \notin onAir'
  <2>1. CASE t \in tasks
    <3>1. t.channel \notin onAir /\ pub[t.channel] \in {"published", "retracted"}
      BY <1>4, <2>1 DEF RetractionsStand
    <3>2. QED
      BY <1>1, <1>2, <1>4, <3>1, RetractionMoves
  <2>2. CASE t \notin tasks
    BY <1>4, <2>2, RetractionMoves
  <2>3. QED
    BY <2>1, <2>2
<1>5. ASSUME NEW c \in Channel, pub'[c] = "retracted" PROVE c \notin onAir'
  <2>1. c \notin onAir /\ pub[c] \in {"published", "retracted"}
    BY <1>5, RetractionMoves DEF RetractionsStand, RetractedIsOffAir
  <2>2. QED
    BY <1>2, <2>1, RetractionMoves
<1>6. QED
  BY <1>3, <1>4, <1>5 DEF RetractionsStand, RetractedIsOffAir

-------------------------------------------------------------------------------
(* The theorems of crash-free behaviour *)

\* Nothing is under way at first.
LEMMA InitCrashFreeInv == Init => CrashFreeInv
<1> SUFFICES ASSUME Init PROVE CrashFreeInv
  OBVIOUS
<1>1. Undisturbed
  BY DEF Init, Undisturbed
<1>2. \A id \in JobKey, c \in Channel : ~ Carries(id, c)
  BY DEF Init, Carries, Absent
<1>3. \A t \in tasks : t.do = "auto"
  BY DEF Init
<1>4. InFlight
  BY <1>2, <1>3 DEF InFlight, CarriedArePending, OneCarrier, RetractionsStand, Hands,
                    RetractedIsOffAir, Init
<1>5. QED
  BY <1>1, <1>4, InitSendInv DEF CrashFreeInv

\* As long as the api has not crashed, every step keeps one carrier per row.
LEMMA NextCrashFreeInv == CrashFreeInv /\ [Next]_vars => CrashFreeInv'
<1> SUFFICES ASSUME CrashFreeInv, [Next]_vars PROVE CrashFreeInv'
  OBVIOUS
<1>1. SendInv /\ SendInv'
  BY NextSendInv DEF CrashFreeInv
<1>2. CASE Crash
  <2>1. crashes \in Nat /\ crashes' = crashes + 1
    BY <1>1, <1>2 DEF SendInv, TypeOK, Crash
  <2>2. crashes' # 0
    BY <2>1
  <2>3. QED
    BY <1>1, <2>2 DEF CrashFreeInv
<1>3. CASE ~ Crash
  <2>1. crashes' = crashes
    BY <1>3 DEF Next, Work, DeliverSome, TaskStep, ScanStep, Operator, Start, Publish, Break,
                Deliver, Summarize, Hop, EnqueueStep, AutoDistribute, CommitRetryPublication,
                Reload, RequeueFailed, TakeDown, CommitRetract, ScanJob, ScanPhase, Distribute,
                Retry, Cancel, RetryPublication, Retract, Boot, process, vars
  <2> SUFFICES ASSUME crashes = 0 PROVE Undisturbed' /\ InFlight'
    BY <1>1, <2>1 DEF CrashFreeInv
  <2>2. Undisturbed /\ InFlight
    BY DEF CrashFreeInv
  <2>3. Undisturbed'
    <3>1. ~ Boot /\ ~ ScanJob /\ ~ ScanPhase
      BY <2>2 DEF Undisturbed, Boot, ScanJob, ScanPhase, NoScan
    <3>2. up' = up /\ scan' = scan
      BY <1>3, <3>1
         DEF Next, Work, DeliverSome, TaskStep, ScanStep, Operator, Start, Publish, Break,
             Deliver, Summarize, Hop, EnqueueStep, AutoDistribute, CommitRetryPublication,
             Reload, RequeueFailed, TakeDown, CommitRetract, Distribute, Retry, Cancel,
             RetryPublication, Retract, process, vars
    <3>3. QED
      BY <2>2, <3>2 DEF Undisturbed, NoScan
  <2>4. CarriedArePending' /\ OneCarrier'
    BY <1>1, <1>3, <2>2, NextCarriers DEF InFlight
  <2>5. RetractionsStand'
    BY <1>1, <1>3, <2>2, NextRetractionsStand DEF InFlight
  <2>6. QED
    BY <2>3, <2>4, <2>5 DEF InFlight
<1>4. QED
  BY <1>2, <1>3

\* Once a content has been sent a first time, every publication row moves only
\* as beginPublishing, resolveResult, a retry or a retraction move it: what is
\* published or retracted is never queued again, crashes included.
THEOREM RowsMoveForward ==
  Spec => [][(FirstSending /\ ~ FirstSending') \/ \A c \in Channel : RowMove(c)]_vars
<1>1. SendInv /\ [Next]_vars
        => [(FirstSending /\ ~ FirstSending') \/ \A c \in Channel : RowMove(c)]_vars
  BY RowsMove DEF SendInv
<1>2. QED
  BY InitSendInv, NextSendInv, <1>1, PTL DEF Spec

\* As long as the api has not crashed, no publication is in the hands of two
\* jobs, or of a job and a request about to add one, and it is pending as long
\* as one has it (publishJobId, retryPublication).
THEOREM OneJobPerPublication == Spec => [](crashes = 0 => OneCarrier /\ CarriedArePending)
<1>1. CrashFreeInv => (crashes = 0 => OneCarrier /\ CarriedArePending)
  BY DEF CrashFreeInv, InFlight
<1>2. QED
  BY InitCrashFreeInv, NextCrashFreeInv, <1>1, PTL DEF Spec

\* As long as the api has not crashed, a publication on record as failed is
\* in no job that still waits or runs, so an operator's retry never posts it
\* twice (retryPublication, requeueFailedForContent, publishJobId).
THEOREM FailedPublicationsRest == Spec => [](crashes = 0 => FailedMeansStopped)
<1>1. CrashFreeInv => (crashes = 0 => FailedMeansStopped)
  <2> SUFFICES ASSUME CrashFreeInv, crashes = 0, NEW c \in Channel, pub[c] = "failed",
                      NEW id \in JobKey, c \in job[id].targets
               PROVE  job[id].state \notin {"waiting", "active"}
    BY DEF FailedMeansStopped
  <2>1. ~ Carries(id, c)
    BY DEF CrashFreeInv, InFlight, CarriedArePending, Pending
  <2>2. QED
    BY <2>1 DEF Carries
<1>2. QED
  BY InitCrashFreeInv, NextCrashFreeInv, <1>1, PTL DEF Spec

\* As long as the api has not crashed, what is on record as retracted is off
\* the air and stays off, whatever jobs and retries run (retractPublication).
THEOREM RetractedStaysOffAir == Spec => [](crashes = 0 => RetractedIsOffAir)
<1>1. CrashFreeInv => (crashes = 0 => RetractedIsOffAir)
  BY DEF CrashFreeInv, InFlight, RetractionsStand
<1>2. QED
  BY InitCrashFreeInv, NextCrashFreeInv, <1>1, PTL DEF Spec
===============================================================================
