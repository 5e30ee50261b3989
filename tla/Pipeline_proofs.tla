---------------------------- MODULE Pipeline_proofs ----------------------------
(***************************************************************************)
(* For any number of generations, attempts, retries and crashes: the type  *)
(* invariant of Pipeline; and, as long as the api has not crashed, its     *)
(* safety properties.                                                      *)
(*                                                                         *)
(* What moves a content is at any time in at most one hand (OneHand): a    *)
(* request that is about to read the row again or to add a job, the job,   *)
(* the announcement of its end, or the handler of that announcement.  The  *)
(* hand fits the status the content has (HandFits), and a content in a     *)
(* working stage is in one (WorkIsHeld).  A crash empties hands and the    *)
(* boot scan fills them again with former jobs: all this ends there.       *)
(***************************************************************************)
EXTENDS Pipeline, TLAPS

-------------------------------------------------------------------------------
(* Facts about the transition map *)

\* The statuses, one by one (workflow.ts lists 23).
LEMMA StatusesAreListed ==
  Status = {"draft", "uploading", "upload_failed", "uploaded", "processing",
            "processing_failed", "analyzing", "analysis_failed", "preview_generating",
            "preview_failed", "awaiting_reporter_review", "revision_requested",
            "regenerating", "regeneration_failed", "reporter_approved",
            "awaiting_center_review", "center_approved", "publishing",
            "publish_failed", "published", "rejected", "canceled", "archived"}
BY DEF Status, CONTENT_STATUS_TRANSITIONS

\* A retry leads back into the failed stage, never to a decision
\* (CONTENT_RETRY_TARGET).
LEMMA RetryFacts ==
  ASSUME NEW from \in FailureStatus
  PROVE  /\ CONTENT_RETRY_TARGET[from] \in
              {"uploading", "processing", "analyzing", "preview_generating",
               "regenerating", "publishing"}
         /\ from \notin {"awaiting_reporter_review", "reporter_approved"}
<1>1. FailureStatus = {"upload_failed", "processing_failed", "analysis_failed",
                       "preview_failed", "regeneration_failed", "publish_failed"}
  BY DEF FailureStatus, CONTENT_RETRY_TARGET
<1>2. /\ CONTENT_RETRY_TARGET["upload_failed"] = "uploading"
      /\ CONTENT_RETRY_TARGET["processing_failed"] = "processing"
      /\ CONTENT_RETRY_TARGET["analysis_failed"] = "analyzing"
      /\ CONTENT_RETRY_TARGET["preview_failed"] = "preview_generating"
      /\ CONTENT_RETRY_TARGET["regeneration_failed"] = "regenerating"
      /\ CONTENT_RETRY_TARGET["publish_failed"] = "publishing"
  BY DEF CONTENT_RETRY_TARGET
<1>3. QED
  BY <1>1, <1>2

-------------------------------------------------------------------------------
(* Hands *)

\* The job runs, or its end is announced and not yet handled.
HeldByJob(k) ==
  \/ Running(k)
  \/ job[k].state \in {"completed", "failed"}
     /\ [name |-> job[k].state, key |-> k] \in events

HeldByTask(t) == t.do \in {"enqueue", "reload"} \/ (t.do = "hop" /\ t.name # "active")

OneHand ==
  /\ \A k, l \in JobKey : HeldByJob(k) /\ HeldByJob(l) => k = l
  /\ \A t, u \in tasks : HeldByTask(t) /\ HeldByTask(u) => t = u
  /\ \A k \in JobKey, t \in tasks : ~ (HeldByJob(k) /\ HeldByTask(t))

\* The job is of the content's generation and of the stage it is in, which a
\* user may have ended by canceling.
Fits(k) ==
  /\ k[2] = generation
  /\ k[1] = "transcode" => status \in {"uploaded", "processing", "canceled"}
  /\ k[1] = "analysis" => status \in {"analyzing", "canceled"}
  /\ k[1] = "auto_edit" => status \in {"preview_generating", "regenerating"}
  /\ k[1] = "preview" => status = "preview_generating"

TaskFits(t) ==
  /\ t.do = "enqueue" => Fits(t.key)
  /\ t.do = "hop" /\ t.name # "active" =>
       /\ Fits(t.key) /\ t.gen = generation
       /\ t.key[1] = "auto_edit" => t.seen = status
  /\ t.do = "reload" =>
       /\ status \in {"processing", "analyzing", "preview_generating", "regenerating", "canceled"}
       /\ t.op = "regenerate" => status = "regenerating"

HandFits ==
  /\ \A k \in JobKey : HeldByJob(k) => Fits(k)
  /\ \A t \in tasks : TaskFits(t)

WorkIsHeld ==
  status \in WorkingStages =>
    (\E k \in JobKey : HeldByJob(k)) \/ (\E t \in tasks : HeldByTask(t))

\* A job that the queue gave up is failed, and only that one is.
GivenUpHaveFailed == \A k \in JobKey : job[k].state = "failed" <=> IsExhausted(k)

PipelineStatus ==
  WorkingStages \union FailedStages \union ReviewStatus
    \union {"revision_requested", "canceled", "rejected", "publishing", "center_approved"}

\* An open revision request is of a content that waits for its regeneration,
\* or somebody is about to close it.
OpenIsExpected ==
  revisionOpen =>
    \/ status \in {"revision_requested", "regenerating", "regeneration_failed", "canceled"}
    \/ \E t \in tasks : Resolving(t)

\* What a task of the editing stages stands for is stored.
EditKnown(t) ==
  /\ t.do = "enqueue" /\ t.key[1] = "preview" => HasMaster(t.key[2])
  /\ t.do = "hop" /\ t.name = "completed" /\ t.key[1] = "auto_edit" => HasMaster(t.key[2])
  /\ t.do = "hop" /\ t.name = "completed" /\ t.key[1] = "preview" =>
       <<"preview", t.key[2], "edited_master">> \in assets

\* What was edited, and what its previews are made from.
EditsAreStored ==
  /\ \A t \in tasks : EditKnown(t)
  /\ \A g \in Generation :
       job[<<"preview", g>>].state # "absent" => job[<<"preview", g>>].source = "edited_master"
  /\ ReviewSeesTheEdit

Undisturbed == up /\ scan = NoScan

CrashFree ==
  /\ Undisturbed /\ status \in PipelineStatus
  /\ OneHand /\ HandFits /\ WorkIsHeld
  /\ OpenIsExpected /\ EditsAreStored

QueueInv == TypeOK /\ GivenUpHaveFailed

PipelineInv == QueueInv /\ (crashes = 0 => CrashFree)

-------------------------------------------------------------------------------
(* Types *)

\* Each kind of task is one (the tasks of handlers and requests).
LEMMA TaskForms ==
  /\ \A name \in {"active", "completed", "failed"}, k \in JobKey, s \in Status,
        g \in Generation, by \in Handler :
       [do |-> "hop", name |-> name, key |-> k, seen |-> s, gen |-> g, by |-> by] \in Task
  /\ \A k \in JobKey, then \in {"done", "resolve"}, by \in Handler :
       Enqueue(k, then, by) \in Task
  /\ \A op \in {"retry", "regenerate"} : Request(op) \in Task
  /\ \A by \in Handler : Resolve(by) \in Task
<1>1. ASSUME NEW name \in {"active", "completed", "failed"}, NEW k \in JobKey, NEW s \in Status,
             NEW g \in Generation, NEW by \in Handler
      PROVE  [do |-> "hop", name |-> name, key |-> k, seen |-> s, gen |-> g, by |-> by]
               \in [do : {"hop"}, name : {"active", "completed", "failed"}, key : JobKey,
                     seen : Status, gen : Generation, by : Handler]
  OBVIOUS
<1>2. ASSUME NEW k \in JobKey, NEW then \in {"done", "resolve"}, NEW by \in Handler
      PROVE  Enqueue(k, then, by)
               \in [do : {"enqueue"}, key : JobKey, then : {"done", "resolve"}, by : Handler]
  BY DEF Enqueue
<1>3. ASSUME NEW op \in {"retry", "regenerate"}
      PROVE  Request(op) \in [do : {"reload"}, op : {"retry", "regenerate"}, by : {"user"}]
  BY DEF Request
<1>4. ASSUME NEW by \in Handler PROVE Resolve(by) \in [do : {"resolve"}, by : Handler]
  BY DEF Resolve
<1>5. QED
  BY <1>1, <1>2, <1>3, <1>4 DEF Task

\* What a task of each kind carries (the same tasks, taken apart).
LEMMA TaskFields ==
  ASSUME NEW t \in Task
  PROVE  /\ t.do \in {"hop", "enqueue", "reload", "resolve"}
         /\ t.do = "hop" => /\ t.name \in {"active", "completed", "failed"} /\ t.key \in JobKey
                            /\ t.seen \in Status /\ t.gen \in Generation
         /\ t.do = "enqueue" => t.key \in JobKey /\ t.then \in {"done", "resolve"}
         /\ t.do = "reload" => t.op \in {"retry", "regenerate"}
         /\ t.by \in Handler
BY DEF Task, Handler

\* A key is a type and a generation (mediaJobId, analysisJobId).
LEMMA Keys ==
  /\ \A k \in JobKey : /\ k = <<k[1], k[2]>> /\ k[2] \in Generation
                        /\ k[1] \in {"transcode", "analysis", "auto_edit", "preview"}
  /\ \A type \in {"transcode", "analysis", "auto_edit", "preview"}, g \in Generation :
       <<type, g>> \in JobKey /\ <<type, g>>[1] = type /\ <<type, g>>[2] = g
BY DEF JobKey

\* Where each outcome leads (the applySystemTransition calls of the handlers).
LEMMA HopTargets ==
  ASSUME NEW t
  PROVE  /\ t.name = "active" /\ t.key[1] = "transcode" => HopTo(t) = "processing"
         /\ t.name = "completed" /\ t.key[1] = "transcode" =>
              HopTo(t) = IF analyze THEN "analyzing" ELSE "preview_generating"
         /\ t.name = "completed" /\ t.key[1] \in {"analysis", "auto_edit"} =>
              HopTo(t) = "preview_generating"
         /\ t.name = "completed" /\ t.key[1] = "preview" => HopTo(t) = PreviewReviewTarget(origin)
         /\ t.name = "failed" /\ t.key[1] = "transcode" => HopTo(t) = "processing_failed"
         /\ t.name = "failed" /\ t.key[1] = "analysis" => HopTo(t) = "analysis_failed"
         /\ t.name = "failed" /\ t.key[1] = "auto_edit" =>
              HopTo(t) = IF t.seen = "regenerating" THEN "regeneration_failed" ELSE "preview_failed"
         /\ t.name = "failed" /\ t.key[1] = "preview" => HopTo(t) = "preview_failed"
BY DEF HopTo

\* What a hop leaves to be done (the end of the handlers).
LEMMA FollowUpTyped ==
  ASSUME NEW t \in Task, t.do = "hop"
  PROVE  FollowUp(t) \subseteq Task /\ \A u \in FollowUp(t) : u.do # "hop"
<1>1. /\ t.key[1] \in {"transcode", "analysis", "auto_edit", "preview"}
      /\ t.gen \in Generation /\ t.by \in Handler
  BY TaskFields, Keys
<1>2. t.key[1] # "preview" => NextType(t.key[1]) \in {"analysis", "auto_edit", "preview"}
  BY <1>1 DEF NextType
<1>3. \A then \in {"done", "resolve"} :
        t.key[1] # "preview" => Enqueue(<<NextType(t.key[1]), t.gen>>, then, t.by) \in Task
  BY <1>1, <1>2, Keys, TaskForms
<1>4. Resolve(t.by) \in Task
  BY <1>1, TaskForms
<1>5. QED
  BY <1>3, <1>4 DEF FollowUp, Enqueue, Resolve

\* The jobs a retry adds (requeueForStatus).
LEMMA RequeueTyped ==
  ASSUME NEW s, NEW g \in Generation
  PROVE  RequeueForStatus(s, g) \subseteq JobKey
BY Keys DEF RequeueForStatus

\* The first state has every row, job and task of its type (Init).
LEMMA InitQueueInv == Init => QueueInv
<1> SUFFICES ASSUME Init PROVE QueueInv
  OBVIOUS
<1>1. status \in Status
  BY StatusesAreListed DEF Init
<1>2. generation \in Generation
  BY PipelineAssumption DEF Init, Generation
<1>3. tasks \subseteq Task /\ \A t \in tasks : t.do = "enqueue"
  BY <1>2, TaskForms, Keys DEF Init, Handler, Enqueue
<1>4. job \in [JobKey -> Job] /\ \A k \in JobKey : job[k].made = 0 /\ job[k].state = "absent"
  BY DEF Init, Job, Absent
<1>5. \A k \in JobKey : Attempts(k) \in Nat \ {0}
  BY PipelineAssumption DEF Attempts
<1>6. (\A k \in JobKey : job[k].made <= Attempts(k)) /\ GivenUpHaveFailed
  BY <1>4, <1>5 DEF GivenUpHaveFailed, IsExhausted
<1>7. /\ scan \in [Queue -> [phase : {"off", "completed", "failed"}, todo : SUBSET JobKey]]
      /\ \A q \in Queue : scan[q].phase = "off" => scan[q].todo = {}
  BY DEF Init, NoScan
<1>8. /\ origin \in ContentOrigin /\ analyze \in BOOLEAN /\ revisionOpen \in BOOLEAN
      /\ assets = {} /\ events = {} /\ up \in BOOLEAN /\ retries \in Nat /\ crashes \in Nat
  BY PipelineAssumption DEF Init
<1>9. QED
  BY <1>1, <1>2, <1>3, <1>4, <1>6, <1>7, <1>8 DEF QueueInv, TypeOK

\* What a handler of an outcome, announced or found at boot, leaves behind:
\* the output of the job, and the hop it is about to make.
LEMMA HandleTyped ==
  ASSUME TypeOK, NEW name \in {"active", "completed", "failed"}, NEW k \in JobKey,
         NEW by \in Handler, name = "active" => k[1] = "transcode", Handle(name, k, by)
  PROVE  /\ assets' \subseteq {"edited_master", "transcode", "analysis", "preview"}
                                \X Generation \X {"original", "edited_master"}
         /\ tasks' \subseteq Task
         /\ \A t \in tasks' : t \notin tasks /\ t.do = "hop" /\ t.name = "active"
                                => t.key[1] = "transcode"
<1>0. /\ job[k] \in Job /\ status \in Status /\ generation \in Generation
      /\ tasks \subseteq Task
      /\ assets \subseteq {"edited_master", "transcode", "analysis", "preview"}
                            \X Generation \X {"original", "edited_master"}
  BY DEF TypeOK
<1>1. Upsert(k) \subseteq {"edited_master", "transcode", "analysis", "preview"}
                            \X Generation \X {"original", "edited_master"}
  <2>1. job[k].source \in {"original", "edited_master"}
    BY <1>0 DEF Job
  <2>2. /\ k[2] \in Generation
        /\ k[1] # "auto_edit" => k[1] \in {"transcode", "analysis", "preview"}
    BY Keys
  <2>3. QED
    BY <1>0, <2>1, <2>2 DEF Upsert
<1>2. CASE ActsOn(name, k)
  <2> DEFINE new == [do |-> "hop", name |-> name, key |-> k, seen |-> status,
                     gen |-> generation, by |-> by]
  <2>1. tasks' = tasks \union {new} /\ assets' = Stored(name, k)
    BY <1>2 DEF Handle
  <2>2. new \in Task /\ new.name = name /\ new.key = k
    BY <1>0, TaskForms
  <2> HIDE DEF new
  <2>3. QED
    BY <1>0, <1>1, <2>1, <2>2 DEF Stored
<1>3. CASE ~ ActsOn(name, k)
  BY <1>0, <1>3 DEF Handle
<1>4. QED
  BY <1>2, <1>3

\* A job that is added, or that a worker moves on, keeps the types of the
\* queue and the bound on its attempts (Add, Start, Succeed, Fail).
LEMMA JobTyped ==
  ASSUME QueueInv, NEW k \in JobKey, NEW j \in Job,
         j.made <= Attempts(k), j.state = "failed" <=> j.made >= Attempts(k),
         job' = [job EXCEPT ![k] = j]
  PROVE  /\ job' \in [JobKey -> Job]
         /\ \A l \in JobKey : job'[l].made <= Attempts(l)
         /\ GivenUpHaveFailed'
<1>1. /\ job \in [JobKey -> Job]
      /\ \A l \in JobKey : job[l].made <= Attempts(l)
      /\ GivenUpHaveFailed
  BY DEF QueueInv, TypeOK
<1>2. \A l \in JobKey : job'[l] = IF l = k THEN j ELSE job[l]
  BY <1>1
<1>3. \A l \in JobKey : job'[l].made <= Attempts(l)
  BY <1>1, <1>2
<1>4. GivenUpHaveFailed'
  BY <1>1, <1>2 DEF GivenUpHaveFailed, IsExhausted, Attempts, QueueOf
<1>5. QED
  BY <1>1, <1>2, <1>3, <1>4

\* What the queue makes of a job when it starts, ends, fails or is added.
LEMMA JobMoves ==
  ASSUME QueueInv, NEW k \in JobKey, Start(k) \/ Succeed(k) \/ Fail(k) \/ job' = Add(k)
  PROVE  /\ job' \in [JobKey -> Job]
         /\ \A l \in JobKey : job'[l].made <= Attempts(l)
         /\ GivenUpHaveFailed'
<1>0. /\ job \in [JobKey -> Job] /\ job[k] \in Job
      /\ job[k].made <= Attempts(k)
      /\ job[k].state = "failed" <=> job[k].made >= Attempts(k)
  BY DEF QueueInv, TypeOK, GivenUpHaveFailed, IsExhausted
<1>1. job[k].made \in Nat /\ Attempts(k) \in Nat \ {0}
  BY <1>0, PipelineAssumption DEF Job, Attempts
<1>2. CASE Start(k)
  <2> DEFINE j == [job[k] EXCEPT !.state = "active"]
  <2>1. job' = [job EXCEPT ![k] = j] /\ job[k].state = "waiting"
    BY <1>0, <1>2 DEF Start
  <2>2. j \in Job /\ j.made = job[k].made /\ j.state = "active"
    BY <1>0 DEF Job
  <2> HIDE DEF j
  <2>3. QED
    BY <1>0, <1>1, <2>1, <2>2, JobTyped
<1>3. CASE Succeed(k)
  <2> DEFINE j == [job[k] EXCEPT !.state = "completed"]
  <2>1. job' = [job EXCEPT ![k] = j] /\ job[k].state = "active"
    BY <1>0, <1>3 DEF Succeed
  <2>2. j \in Job /\ j.made = job[k].made /\ j.state = "completed"
    BY <1>0 DEF Job
  <2> HIDE DEF j
  <2>3. QED
    BY <1>0, <1>1, <2>1, <2>2, JobTyped
<1>4. CASE Fail(k)
  <2> DEFINE made == job[k].made + 1
             state == IF made < Attempts(k) THEN "waiting" ELSE "failed"
             j == [job[k] EXCEPT !.made = made, !.state = state]
  <2>1. job' = [job EXCEPT ![k].made = made, ![k].state = state] /\ job[k].state = "active"
    BY <1>4 DEF Fail
  <2>2. made \in Nat /\ made <= Attempts(k) /\ (state = "failed" <=> made >= Attempts(k))
    BY <1>0, <1>1, <2>1
  <2>3. state \in {"waiting", "failed"}
    OBVIOUS
  <2> HIDE DEF made, state
  <2>4. j \in Job /\ j.made = made /\ j.state = state
    BY <1>0, <2>2, <2>3 DEF Job
  <2>5. job' = [job EXCEPT ![k] = j]
    BY <1>0, <2>1 DEF Job
  <2> HIDE DEF j
  <2>6. QED
    BY <2>2, <2>4, <2>5, JobTyped
<1>5. CASE job' = Add(k)
  <2>1. CASE job[k].state = "active"
    BY <1>5, <2>1 DEF Add, QueueInv, TypeOK, GivenUpHaveFailed, IsExhausted, Attempts, QueueOf
  <2>2. CASE job[k].state # "active"
    <3> DEFINE j == [state |-> "waiting", made |-> 0, source |-> SourceOf(k)]
    <3>1. job' = [job EXCEPT ![k] = j]
      BY <1>5, <2>2 DEF Add
    <3>2. SourceOf(k) \in {"original", "edited_master"}
      BY DEF SourceOf
    <3>3. j \in Job /\ j.made = 0 /\ j.state = "waiting"
      BY <3>2 DEF Job
    <3> HIDE DEF j
    <3>4. j.made <= Attempts(k) /\ (j.state = "failed" <=> j.made >= Attempts(k))
      BY <1>1, <3>3
    <3>5. QED
      BY <3>1, <3>3, <3>4, JobTyped
  <2>3. QED
    BY <2>1, <2>2
<1>6. QED
  BY <1>2, <1>3, <1>4, <1>5

\* Every announcement is of a job, and those of starts are of transcodes.
LEMMA AnnounceTyped ==
  ASSUME NEW name \in {"active", "completed", "failed"}, NEW k \in JobKey, Announce(name, k),
         events \subseteq [name : {"active", "completed", "failed"}, key : JobKey]
  PROVE  /\ events' \subseteq [name : {"active", "completed", "failed"}, key : JobKey]
         /\ \A e \in events' : e.name = "active" => e \in events \/ e.key[1] = "transcode"
BY DEF Announce

\* No step of the workers, the handlers, the scans, a user, a crash or a boot
\* leaves the types (queue, pipeline.service.ts).
LEMMA NextQueueInv == QueueInv /\ [Next]_vars => QueueInv'
<1> SUFFICES ASSUME QueueInv, [Next]_vars PROVE QueueInv'
  OBVIOUS
<1> DEFINE Scans == /\ scan' \in [Queue -> [phase : {"off", "completed", "failed"},
                                            todo : SUBSET JobKey]]
                    /\ \A q \in Queue : scan'[q].phase = "off" => scan'[q].todo = {}
           Starts == \A x \in events' \union {t \in tasks' : t.do = "hop"} :
                       x.name = "active" => x.key[1] = "transcode"
           AllAssets == {"edited_master", "transcode", "analysis", "preview"}
                           \X Generation \X {"original", "edited_master"}
           AllEvents == [name : {"active", "completed", "failed"}, key : JobKey]
<1>0. /\ origin \in ContentOrigin /\ analyze \in BOOLEAN
      /\ status \in Status /\ generation \in Generation /\ revisionOpen \in BOOLEAN
      /\ assets \subseteq AllAssets
      /\ job \in [JobKey -> Job] /\ \A k \in JobKey : job[k].made <= Attempts(k)
      /\ GivenUpHaveFailed
      /\ events \subseteq AllEvents
      /\ tasks \subseteq Task
      /\ \A x \in events \union {t \in tasks : t.do = "hop"} :
           x.name = "active" => x.key[1] = "transcode"
      /\ up \in BOOLEAN
      /\ scan \in [Queue -> [phase : {"off", "completed", "failed"}, todo : SUBSET JobKey]]
      /\ \A q \in Queue : scan[q].phase = "off" => scan[q].todo = {}
      /\ retries \in Nat /\ crashes \in Nat
  BY DEF QueueInv, TypeOK
<1>1. ASSUME UNCHANGED fixed,
             status' \in Status, generation' \in Generation, revisionOpen' \in BOOLEAN,
             assets' \subseteq AllAssets,
             /\ job' \in [JobKey -> Job] /\ \A k \in JobKey : job'[k].made <= Attempts(k)
             /\ GivenUpHaveFailed',
             events' \subseteq AllEvents, tasks' \subseteq Task, Starts,
             up' \in BOOLEAN, Scans, retries' \in Nat, crashes' \in Nat
      PROVE  QueueInv'
  <2>1. origin' = origin /\ analyze' = analyze
    BY <1>1 DEF fixed
  <2>2. \A k \in JobKey : job'[k].made <= Attempts(k)'
    BY <1>1 DEF Attempts, QueueOf
  <2>3. QED
    BY <1>0, <1>1, <2>1, <2>2 DEF QueueInv, TypeOK
<1>2. /\ UNCHANGED job => /\ job' \in [JobKey -> Job]
                          /\ \A k \in JobKey : job'[k].made <= Attempts(k)
                          /\ GivenUpHaveFailed'
      /\ UNCHANGED content => /\ status' \in Status /\ generation' \in Generation
                              /\ revisionOpen' \in BOOLEAN /\ retries' \in Nat
      /\ UNCHANGED api => up' \in BOOLEAN /\ Scans /\ crashes' \in Nat
      /\ UNCHANGED <<events, tasks>> => Starts
  <2>1. UNCHANGED job => GivenUpHaveFailed'
    BY <1>0 DEF GivenUpHaveFailed, IsExhausted, Attempts, QueueOf
  <2>2. QED
    BY <1>0, <2>1 DEF content, api
<1>3. ASSUME NEW k \in JobKey, Start(k) \/ Succeed(k) \/ Fail(k) PROVE QueueInv'
  <2>1. /\ UNCHANGED <<fixed, content, assets, tasks, api>>
        /\ \/ Announce("active", k) \/ Announce("completed", k) \/ Announce("failed", k)
    BY <1>3 DEF Start, Succeed, Fail
  <2>2. /\ events' \subseteq AllEvents
        /\ \A e \in events' : e.name = "active" => e \in events \/ e.key[1] = "transcode"
    BY <1>0, <2>1, AnnounceTyped
  <2>3. /\ job' \in [JobKey -> Job] /\ \A l \in JobKey : job'[l].made <= Attempts(l)
        /\ GivenUpHaveFailed'
    BY <1>3, JobMoves
  <2>4. Starts
    BY <1>0, <2>1, <2>2
  <2>5. QED
    BY <1>0, <1>1, <1>2, <2>1, <2>2, <2>3, <2>4
<1>4. ASSUME NEW e \in events, Deliver(e) PROVE QueueInv'
  <2>1. /\ e.name \in {"active", "completed", "failed"} /\ e.key \in JobKey
        /\ e.name = "active" => e.key[1] = "transcode"
    BY <1>0
  <2>2. /\ assets' \subseteq AllAssets
        /\ tasks' \subseteq Task
        /\ \A t \in tasks' : t \notin tasks /\ t.do = "hop" /\ t.name = "active"
                               => t.key[1] = "transcode"
    BY <1>4, <2>1, HandleTyped DEF Deliver, QueueInv, Handler
  <2>3. events' \subseteq events /\ UNCHANGED <<fixed, content, job, api>>
    BY <1>4 DEF Deliver
  <2>4. Starts
    BY <1>0, <2>2, <2>3
  <2>5. QED
    BY <1>0, <1>1, <1>2, <2>2, <2>3, <2>4
<1>5. ASSUME NEW t \in tasks, HopStep(t) PROVE QueueInv'
  <2>1. /\ t \in Task /\ t.do = "hop" /\ t.name \in {"active", "completed", "failed"}
        /\ t.key[1] \in {"transcode", "analysis", "auto_edit", "preview"}
        /\ t.name = "active" => t.key[1] = "transcode"
    BY <1>0, <1>5, TaskFields, Keys DEF HopStep
  <2>2. HopTo(t) \in Status
    BY <2>1, HopTargets, StatusesAreListed DEF PreviewReviewTarget
  <2>3. /\ status' \in Status
        /\ tasks' = (tasks \ {t}) \union FollowUp(t)
        /\ UNCHANGED <<fixed, generation, revisionOpen, retries, assets, job, events, api>>
    BY <1>0, <1>5, <2>2 DEF HopStep
  <2>4. tasks' \subseteq Task /\ Starts
    BY <1>0, <2>1, <2>3, FollowUpTyped
  <2>5. QED
    BY <1>0, <1>1, <1>2, <2>3, <2>4
<1>6. ASSUME NEW t \in tasks, EnqueueStep(t) PROVE QueueInv'
  <2>1. t \in Task /\ t.key \in JobKey /\ t.by \in Handler
    BY <1>0, <1>6, TaskFields DEF EnqueueStep
  <2>2. Resolve(t.by) \in Task /\ Resolve(t.by).do # "hop"
    BY <2>1, TaskForms DEF Resolve
  <2>3. /\ tasks' \subseteq (tasks \ {t}) \union {Resolve(t.by)}
        /\ job' = Add(t.key)
        /\ UNCHANGED <<fixed, content, assets, events, api>>
    BY <1>6 DEF EnqueueStep
  <2>4. tasks' \subseteq Task /\ Starts
    BY <1>0, <2>2, <2>3
  <2>5. /\ job' \in [JobKey -> Job] /\ \A l \in JobKey : job'[l].made <= Attempts(l)
        /\ GivenUpHaveFailed'
    BY <2>1, <2>3, JobMoves
  <2>6. QED
    BY <1>0, <1>1, <1>2, <2>3, <2>4, <2>5
<1>7. ASSUME NEW t \in tasks, ResolveStep(t) PROVE QueueInv'
  BY <1>0, <1>1, <1>2, <1>7 DEF ResolveStep
<1>8. ASSUME NEW t \in tasks, Reload(t) PROVE QueueInv'
  <2> DEFINE keys == IF t.op = "regenerate" THEN {<<"auto_edit", generation>>}
                                             ELSE RequeueForStatus(status, generation)
  <2>0. keys \subseteq JobKey
    BY <1>0, Keys, RequeueTyped
  <2>1. tasks' = (tasks \ {t}) \union {Enqueue(k, "done", "user") : k \in keys}
    BY <1>8 DEF Reload
  <2>2. \A k \in JobKey : /\ Enqueue(k, "done", "user") \in Task
                          /\ Enqueue(k, "done", "user").do # "hop"
    BY TaskForms DEF Enqueue, Handler
  <2>3. UNCHANGED <<fixed, content, assets, job, events, api>>
    BY <1>8 DEF Reload
  <2> HIDE DEF keys
  <2>4. tasks' \subseteq Task /\ Starts
    BY <1>0, <2>0, <2>1, <2>2, <2>3
  <2>5. QED
    BY <1>0, <1>1, <1>2, <2>3, <2>4
<1>9. ASSUME NEW q \in Queue, ScanJob(q) PROVE QueueInv'
  <2>1. PICK k \in scan[q].todo :
          Handle(scan[q].phase, k, q) /\ scan' = [scan EXCEPT ![q].todo = @ \ {k}]
    BY <1>9 DEF ScanJob
  <2>2. k \in JobKey /\ scan[q].phase \in {"completed", "failed"}
    BY <1>0, <2>1
  <2>3. /\ assets' \subseteq AllAssets
        /\ tasks' \subseteq Task
        /\ \A t \in tasks' : t \notin tasks /\ t.do = "hop" /\ t.name = "active"
                               => t.key[1] = "transcode"
    BY <2>1, <2>2, HandleTyped DEF QueueInv, Handler
  <2>4. UNCHANGED <<fixed, content, job, events, up, crashes>>
    BY <1>9 DEF ScanJob
  <2>5. Scans
    <3>1. scan' = [scan EXCEPT ![q] = [scan[q] EXCEPT !.todo = scan[q].todo \ {k}]]
      BY <2>1
    <3>2. /\ [scan[q] EXCEPT !.todo = scan[q].todo \ {k}]
               \in [phase : {"off", "completed", "failed"}, todo : SUBSET JobKey]
          /\ [scan[q] EXCEPT !.todo = scan[q].todo \ {k}].phase # "off"
      BY <1>0, <2>2
    <3>3. QED
      BY <1>0, <3>1, <3>2
  <2>6. Starts
    BY <1>0, <2>3, <2>4
  <2>7. QED
    BY <1>0, <1>1, <1>2, <2>3, <2>4, <2>5, <2>6
<1>10. ASSUME NEW q \in Queue, ScanPhase(q) PROVE QueueInv'
  <2>1. /\ AfterPhase(q) \in [phase : {"off", "completed", "failed"}, todo : SUBSET JobKey]
        /\ AfterPhase(q).phase = "off" => AfterPhase(q).todo = {}
    BY DEF AfterPhase, Finished
  <2>2. Scans
    BY <1>0, <1>10, <2>1 DEF ScanPhase
  <2>3. UNCHANGED <<fixed, content, assets, job, events, tasks, up, crashes>>
    BY <1>10 DEF ScanPhase
  <2>4. QED
    BY <1>0, <1>1, <1>2, <2>2, <2>3
<1>11. CASE Retry
  <2>1. generation + 1 \in Nat /\ (generation < MaxGeneration => generation + 1 \in Generation)
    BY <1>0, PipelineAssumption DEF Generation
  <2>2. status' \in Status /\ generation' \in Generation
    BY <1>0, <1>11, <2>1, RetryFacts, StatusesAreListed DEF Retry
  <2>3. retries' \in Nat
    BY <1>0, <1>11 DEF Retry
  <2>4. tasks' \subseteq Task /\ Starts
    <3>1. Request("retry") \in Task /\ Request("retry").do # "hop"
      BY TaskForms DEF Request
    <3>2. QED
      BY <1>0, <1>11, <3>1 DEF Retry
  <2>5. UNCHANGED <<fixed, revisionOpen, assets, job, events, api>>
    BY <1>11 DEF Retry
  <2>6. QED
    BY <1>0, <1>1, <1>2, <2>2, <2>3, <2>4, <2>5
<1>12. CASE Regenerate
  <2>1. generation' \in Generation
    BY <1>0, <1>12, PipelineAssumption DEF Regenerate, Generation
  <2>2. status' \in Status
    BY <1>12, StatusesAreListed DEF Regenerate
  <2>3. tasks' \subseteq Task /\ Starts
    <3>1. Request("regenerate") \in Task /\ Request("regenerate").do # "hop"
      BY TaskForms DEF Request
    <3>2. QED
      BY <1>0, <1>12, <3>1 DEF Regenerate
  <2>4. UNCHANGED <<fixed, revisionOpen, retries, assets, job, events, api>>
    BY <1>12 DEF Regenerate
  <2>5. QED
    BY <1>0, <1>1, <1>2, <2>1, <2>2, <2>3, <2>4
<1>13. CASE RequestRevision \/ EndReview \/ Cancel
  <2>1. status' \in Status /\ revisionOpen' \in BOOLEAN
    BY <1>0, <1>13, StatusesAreListed DEF RequestRevision, EndReview, Cancel
  <2>2. UNCHANGED <<fixed, generation, retries, assets, job, events, tasks, api>>
    BY <1>13 DEF RequestRevision, EndReview, Cancel
  <2>3. QED
    BY <1>0, <1>1, <1>2, <2>1, <2>2
<1>14. CASE Crash
  <2>1. crashes' = crashes + 1 /\ up' \in BOOLEAN /\ Scans
    BY <1>14 DEF Crash, NoScan
  <2>2. events' = {} /\ tasks' = {} /\ UNCHANGED <<fixed, content, assets, job>>
    BY <1>14 DEF Crash
  <2>3. crashes' \in Nat
    BY <1>0, <2>1
  <2>4. QED
    BY <1>0, <1>1, <1>2, <2>1, <2>2, <2>3
<1>15. CASE Boot
  <2>1. \A q \in Queue : Finished(q, "completed") \subseteq JobKey
    BY DEF Finished
  <2>2. Scans /\ up' \in BOOLEAN
    BY <1>15, <2>1 DEF Boot
  <2>3. UNCHANGED <<fixed, content, assets, job, events, tasks, crashes>>
    BY <1>15 DEF Boot
  <2>4. QED
    BY <1>0, <1>1, <1>2, <2>2, <2>3
<1>16. CASE UNCHANGED vars
  BY <1>0, <1>1, <1>2, <1>16 DEF vars
<1>17. QED
  BY <1>3, <1>4, <1>5, <1>6, <1>7, <1>8, <1>9, <1>10, <1>11, <1>12, <1>13, <1>14, <1>15, <1>16
     DEF Next, Work, DeliverSome, TaskStep, ScanStep, User

\* Rows, jobs, announcements, tasks and scans hold values of their columns and
\* no job is tried more often than its queue allows, crashes and replays
\* included (MEDIA_JOB_ATTEMPTS, AI_ANALYSIS_JOB_ATTEMPTS).
THEOREM TypeCorrect == Spec => []TypeOK
<1>1. QueueInv => TypeOK
  BY DEF QueueInv
<1>2. QED
  BY InitQueueInv, NextQueueInv, <1>1, PTL DEF Spec

\* A job has failed exactly when its queue has given it up: a failure that is
\* acted on was the last (isExhausted).
THEOREM OnlyGivenUpJobsFail == Spec => []GivenUpHaveFailed
<1>1. QueueInv => GivenUpHaveFailed
  BY DEF QueueInv
<1>2. QED
  BY InitQueueInv, NextQueueInv, <1>1, PTL DEF Spec

-------------------------------------------------------------------------------
(* One hand, while the api does not crash *)

\* The handler adds the job of the next stage.
Continues(t) ==
  /\ t.name = "completed" /\ t.key[1] # "preview"
  /\ Applies(t) \/ (Editing(t) /\ t.seen = "preview_generating")

\* From where each outcome takes the content (the chains of
\* applySystemTransition calls).
LEMMA HopSources ==
  ASSUME NEW t
  PROVE  /\ t.name = "active" /\ t.key[1] = "transcode" => HopFrom(t) = {"uploaded"}
         /\ t.name # "active" /\ t.key[1] = "transcode" => HopFrom(t) = {"uploaded", "processing"}
         /\ t.name # "active" /\ t.key[1] = "analysis" =>
              HopFrom(t) = {"uploaded", "processing", "analyzing"}
         /\ t.name # "active" /\ t.key[1] = "preview" => HopFrom(t) = {"preview_generating"}
         /\ t.name # "active" /\ t.key[1] = "auto_edit" =>
              HopFrom(t) = IF t.seen = "regenerating" THEN {"regenerating"}
                           ELSE IF t.name = "failed" THEN {"preview_generating"} ELSE {}
BY DEF HopFrom

\* What a hop leaves to be done: the next job to add, or a revision request to
\* close, or nothing (the end of the handlers).
LEMMA FollowUpForms ==
  ASSUME NEW t
  PROVE  /\ Continues(t) => \E then \in {"done", "resolve"} :
              /\ FollowUp(t) = {Enqueue(<<NextType(t.key[1]), t.gen>>, then, t.by)}
              /\ Editing(t) /\ t.seen = "regenerating" => then = "resolve"
         /\ ~ Continues(t) => \A u \in FollowUp(t) : u.do = "resolve"
         /\ t.name = "active" => FollowUp(t) = {}
<1>1. CASE Continues(t)
  BY <1>1 DEF FollowUp, Continues
<1>2. CASE ~ Continues(t)
  BY <1>2 DEF FollowUp, Continues, Resolve, Editing
<1>3. QED
  BY <1>1, <1>2 DEF Continues

\* A hop of the hand leads to a status that the next job fits; one that adds
\* no job leaves no working stage (onCompleted and onFailed of each type).
LEMMA HopOfHand ==
  ASSUME QueueInv, HandFits, NEW t \in tasks, HopStep(t), t.name # "active"
  PROVE  /\ Continues(t) => \A k : k = <<NextType(t.key[1]), t.gen>> => Fits(k)'
         /\ ~ Continues(t) => status' \notin WorkingStages
<1>1. /\ t.do = "hop" /\ t.name \in {"completed", "failed"}
      /\ t.key[1] \in {"transcode", "analysis", "auto_edit", "preview"}
      /\ t.gen = generation /\ generation' = generation
      /\ status' = IF Applies(t) THEN HopTo(t) ELSE status
      /\ t.key[1] = "auto_edit" => t.seen = status
  BY TaskFields, Keys DEF HopStep, QueueInv, TypeOK, HandFits, TaskFits
<1>2. Fits(t.key)
  BY <1>1 DEF HandFits, TaskFits
<1>3. CASE t.key[1] = "transcode"
  <2>1. /\ Applies(t) <=> status \in {"uploaded", "processing"}
        /\ status \in {"uploaded", "processing", "canceled"}
    BY <1>1, <1>2, <1>3, HopSources DEF Applies, Fits
  <2>2. /\ t.name = "completed" =>
             HopTo(t) = IF analyze THEN "analyzing" ELSE "preview_generating"
        /\ t.name = "failed" => HopTo(t) = "processing_failed"
    BY <1>3, HopTargets
  <2>3. NextType(t.key[1]) = IF analyze THEN "analysis" ELSE "auto_edit"
    BY <1>3 DEF NextType
  <2>4. Continues(t) <=> t.name = "completed" /\ Applies(t)
    BY <1>3 DEF Continues, Editing
  <2>5. CASE Continues(t)
    <3>1. status' = IF analyze THEN "analyzing" ELSE "preview_generating"
      BY <1>1, <2>2, <2>4, <2>5
    <3>2. SUFFICES ASSUME NEW k, k = <<NextType(t.key[1]), t.gen>> PROVE Fits(k)'
      BY <2>5
    <3>3. k[1] = IF analyze THEN "analysis" ELSE "auto_edit"
      BY <2>3, <3>2
    <3>4. k[2] = generation'
      BY <1>1, <3>2
    <3>5. QED
      BY <3>1, <3>3, <3>4 DEF Fits
  <2>6. CASE ~ Continues(t)
    BY <1>1, <2>1, <2>2, <2>4, <2>6 DEF WorkingStages
  <2>7. QED
    BY <2>5, <2>6
<1>4. CASE t.key[1] = "analysis"
  BY <1>1, <1>2, <1>4, HopSources, HopTargets
     DEF Continues, Editing, Applies, Fits, NextType, WorkingStages
<1>5. CASE t.key[1] = "auto_edit"
  BY <1>1, <1>2, <1>5, HopSources, HopTargets
     DEF Continues, Editing, Applies, Fits, NextType, WorkingStages
<1>6. CASE t.key[1] = "preview"
  BY <1>1, <1>2, <1>6, HopSources, HopTargets
     DEF Continues, Editing, Applies, Fits, PreviewReviewTarget, WorkingStages
<1>7. QED
  BY <1>1, <1>3, <1>4, <1>5, <1>6

\* In the statuses where users decide, nobody moves the content.
LEMMA UsersFindNoHand ==
  ASSUME QueueInv, HandFits,
         status \notin WorkingStages, status # "canceled"
  PROVE  /\ \A k \in JobKey : ~ HeldByJob(k)
         /\ \A t \in tasks : ~ HeldByTask(t)
<1>1. \A k \in JobKey : ~ Fits(k)
  BY Keys DEF Fits, WorkingStages
<1>2. ASSUME NEW t \in tasks PROVE ~ HeldByTask(t)
  <2>1. t \in Task /\ TaskFits(t)
    BY DEF QueueInv, TypeOK, HandFits
  <2>2. QED
    BY <1>1, <2>1, TaskFields DEF TaskFits, HeldByTask, WorkingStages
<1>3. QED
  BY <1>1, <1>2 DEF HandFits

Hand == OneHand /\ HandFits /\ WorkIsHeld

\* An announcement of the end of a job is acted on exactly when the job is in
\* that end (getJob, isExhausted).
LEMMA EndsAreActedOn ==
  ASSUME QueueInv, NEW name \in {"completed", "failed"}, NEW k \in JobKey
  PROVE  ActsOn(name, k) <=> job[k].state = name
BY DEF QueueInv, GivenUpHaveFailed, ActsOn

\* The queue and its workers keep a job in the hand it is in.
LEMMA WorkKeepsHand ==
  ASSUME QueueInv, Hand, up, NEW k \in JobKey, Start(k) \/ Succeed(k) \/ Fail(k)
  PROVE  Hand'
<1>0. job \in [JobKey -> Job] /\ UNCHANGED <<content, tasks>>
  BY DEF QueueInv, TypeOK, Start, Succeed, Fail
<1>1. \A l \in JobKey : l # k => job'[l] = job[l]
  BY <1>0 DEF Start, Succeed, Fail
<1>2. HeldByJob(k) /\ HeldByJob(k)'
  <2>1. CASE Start(k)
    BY <1>0, <2>1 DEF Start, HeldByJob, Running, Job
  <2>2. CASE Succeed(k)
    <3>1. job[k].state = "active" /\ job'[k].state = "completed"
      BY <1>0, <2>2 DEF Succeed, Job
    <3>2. [name |-> "completed", key |-> k] \in events'
      BY <2>2 DEF Succeed, Announce
    <3>3. QED
      BY <3>1, <3>2 DEF HeldByJob, Running
  <2>3. CASE Fail(k)
    <3>1. job[k].state = "active" /\ job'[k].state \in {"waiting", "failed"}
      BY <1>0, <2>3 DEF Fail, Job
    <3>2. [name |-> "failed", key |-> k] \in events'
      BY <2>3 DEF Fail, Announce
    <3>3. QED
      BY <3>1, <3>2 DEF HeldByJob, Running
  <2>4. QED
    BY <2>1, <2>2, <2>3
<1>3. \A l \in JobKey : HeldByJob(l)' <=> HeldByJob(l)
  <2>1. \A e \in events' : e \in events \/ e.key = k
    BY DEF Start, Succeed, Fail, Announce
  <2>2. events \subseteq events'
    BY DEF Start, Succeed, Fail, Announce
  <2>3. ASSUME NEW l \in JobKey, l # k PROVE HeldByJob(l)' <=> HeldByJob(l)
    BY <1>1, <2>1, <2>2, <2>3 DEF HeldByJob, Running
  <2>4. QED
    BY <1>2, <2>3
<1>4. OneHand'
  BY <1>0, <1>3 DEF Hand, OneHand, HeldByTask
<1>5. HandFits'
  BY <1>0, <1>3 DEF Hand, HandFits, Fits, TaskFits, content
<1>6. WorkIsHeld'
  BY <1>0, <1>3 DEF Hand, WorkIsHeld, content
<1>7. QED
  BY <1>4, <1>5, <1>6 DEF Hand

\* A handler that acts on the end of a job takes the content out of the
\* announcement into its own hand (onCompleted, onFailed).
LEMMA DeliverKeepsHand ==
  ASSUME QueueInv, Hand, NEW e \in events, Deliver(e)
  PROVE  Hand'
<1>0. /\ e.name \in {"active", "completed", "failed"} /\ e.key \in JobKey
      /\ e = [name |-> e.name, key |-> e.key]
      /\ events' = events \ {e} /\ UNCHANGED <<content, job>>
      /\ Handle(e.name, e.key, "event")
  BY DEF QueueInv, TypeOK, Deliver
<1>1. \A l \in JobKey : HeldByJob(l)' => HeldByJob(l)
  BY <1>0 DEF HeldByJob, Running
<1>2. CASE e.name # "active" /\ ActsOn(e.name, e.key)
  <2> DEFINE hop == [do |-> "hop", name |-> e.name, key |-> e.key, seen |-> status,
                     gen |-> generation, by |-> "event"]
  <2>1. job[e.key].state = e.name
    BY <1>0, <1>2, EndsAreActedOn
  <2>2. HeldByJob(e.key) /\ ~ HeldByJob(e.key)'
    BY <1>0, <1>2, <2>1 DEF HeldByJob, Running
  <2>3. \A l \in JobKey : ~ HeldByJob(l)'
    BY <1>0, <1>1, <2>2 DEF Hand, OneHand
  <2>4. \A t \in tasks : ~ HeldByTask(t)
    BY <1>0, <2>2 DEF Hand, OneHand
  <2>5. PICK new :
          /\ tasks' = tasks \union {new}
          /\ new.do = "hop" /\ new.name = e.name /\ new.key = e.key
          /\ new.seen = status /\ new.gen = generation
    <3>1. tasks' = tasks \union {hop}
      BY <1>0, <1>2 DEF Handle
    <3>2. /\ hop.do = "hop" /\ hop.name = e.name /\ hop.key = e.key
          /\ hop.seen = status /\ hop.gen = generation
      OBVIOUS
    <3> HIDE DEF hop
    <3>3. QED
      BY <3>1, <3>2
  <2>6. Fits(e.key)
    BY <1>0, <2>2 DEF Hand, HandFits
  <2>7. HeldByTask(new)
    BY <1>2, <2>5 DEF HeldByTask
  <2>8. OneHand'
    BY <2>3, <2>4, <2>5 DEF OneHand, HeldByTask
  <2>9. HandFits'
    <3>1. TaskFits(new)'
      BY <1>0, <2>5, <2>6 DEF TaskFits, Fits, content
    <3>2. \A t \in tasks : TaskFits(t)'
      BY <1>0 DEF Hand, HandFits, TaskFits, Fits, content
    <3>3. QED
      BY <2>3, <2>5, <3>1, <3>2 DEF HandFits
  <2>10. WorkIsHeld'
    BY <2>5, <2>7 DEF WorkIsHeld, HeldByTask
  <2>11. QED
    BY <2>8, <2>9, <2>10 DEF Hand
<1>3. CASE e.name = "active" \/ ~ ActsOn(e.name, e.key)
  <2>1. \A t \in tasks' : t \in tasks \/ ~ HeldByTask(t)
    BY <1>0, <1>3 DEF Handle, HeldByTask
  <2>2. tasks \subseteq tasks'
    BY <1>0 DEF Handle
  <2>3. \A l \in JobKey : HeldByJob(l) => HeldByJob(l)'
    <3>1. CASE e.name = "active"
      BY <1>0, <3>1 DEF HeldByJob, Running
    <3>2. CASE e.name # "active"
      <4>1. job[e.key].state # e.name
        BY <1>0, <1>3, <3>2, EndsAreActedOn
      <4>2. QED
        BY <1>0, <4>1 DEF HeldByJob, Running
    <3>3. QED
      BY <3>1, <3>2
  <2>4. OneHand'
    BY <1>1, <2>1 DEF Hand, OneHand, HeldByTask
  <2>5. HandFits'
    <3>1. \A t \in tasks : TaskFits(t)'
      BY <1>0 DEF Hand, HandFits, TaskFits, Fits, content
    <3>2. \A t \in tasks' : t \notin tasks => t.do = "hop" /\ TaskFits(t)'
      BY <1>0, <1>3 DEF Handle, TaskFits
    <3>3. \A l \in JobKey : HeldByJob(l)' => Fits(l)'
      BY <1>0, <1>1 DEF Hand, HandFits, Fits, content
    <3>4. QED
      BY <3>1, <3>2, <3>3 DEF HandFits
  <2>6. WorkIsHeld'
    BY <1>0, <2>2, <2>3 DEF Hand, WorkIsHeld, HeldByTask, content
  <2>7. QED
    BY <2>4, <2>5, <2>6 DEF Hand
<1>4. QED
  BY <1>2, <1>3

\* A hop hands the content on to the next job, or ends the stage; the hop of a
\* start leaves it in the hand it is in (applySystemTransition).
LEMMA HopKeepsHand ==
  ASSUME QueueInv, Hand, NEW t \in tasks, HopStep(t)
  PROVE  Hand'
<1>0. /\ t \in Task /\ t.do = "hop"
      /\ UNCHANGED <<job, events, generation>>
      /\ tasks' = (tasks \ {t}) \union FollowUp(t)
      /\ status' = IF Applies(t) THEN HopTo(t) ELSE status
      /\ t.name = "active" => t.key[1] = "transcode"
  BY DEF QueueInv, TypeOK, HopStep
<1>1. \A l \in JobKey : HeldByJob(l)' <=> HeldByJob(l)
  BY <1>0 DEF HeldByJob, Running
<1>2. CASE t.name = "active"
  <2>1. tasks' = tasks \ {t} /\ ~ HeldByTask(t)
    BY <1>0, <1>2, FollowUpForms DEF HeldByTask
  <2>2. status' = status \/ (status = "uploaded" /\ status' = "processing")
    BY <1>0, <1>2, HopSources, HopTargets DEF Applies
  <2>3. OneHand'
    BY <1>1, <2>1 DEF Hand, OneHand, HeldByTask
  <2>4. \A k \in JobKey : Fits(k) => Fits(k)'
    BY <1>0, <2>2, Keys DEF Fits
  <2>5. ASSUME NEW u \in tasks, TaskFits(u) PROVE TaskFits(u)'
    <3>1. CASE status' = status
      BY <1>0, <2>5, <3>1 DEF TaskFits, Fits
    <3>2. CASE status = "uploaded" /\ status' = "processing"
      <4>1. u \in Task
        BY DEF QueueInv, TypeOK
      <4>2. u.do = "enqueue" \/ u.do = "hop" => u.key \in JobKey
        BY <4>1, TaskFields
      <4>3. u.do = "hop" /\ u.name # "active" => u.key[1] # "auto_edit"
        BY <2>5, <3>2 DEF TaskFits, Fits
      <4>4. QED
        BY <1>0, <2>4, <2>5, <3>2, <4>2, <4>3 DEF TaskFits
    <3>3. QED
      BY <2>2, <3>1, <3>2
  <2>6. HandFits'
    BY <1>1, <2>1, <2>4, <2>5 DEF Hand, HandFits
  <2>7. status' \in WorkingStages => status \in WorkingStages
    BY <2>2 DEF WorkingStages
  <2>8. WorkIsHeld'
    BY <1>1, <2>1, <2>7 DEF Hand, WorkIsHeld, HeldByTask
  <2>9. QED
    BY <2>3, <2>6, <2>8 DEF Hand
<1>3. CASE t.name # "active"
  <2>1. HeldByTask(t)
    BY <1>0, <1>3 DEF HeldByTask
  <2>2. /\ \A l \in JobKey : ~ HeldByJob(l)'
        /\ \A u \in tasks : HeldByTask(u) => u = t
    BY <1>1, <2>1 DEF Hand, OneHand
  <2>3. \A u \in tasks' : HeldByTask(u) => u \in FollowUp(t)
    BY <1>0, <2>2
  <2>4. ASSUME NEW u \in tasks', ~ HeldByTask(u) PROVE TaskFits(u)'
    BY <2>4 DEF TaskFits, HeldByTask
  <2>5. CASE Continues(t)
    <3>1. PICK then \in {"done", "resolve"} :
            FollowUp(t) = {Enqueue(<<NextType(t.key[1]), t.gen>>, then, t.by)}
      BY <2>5, FollowUpForms
    <3> DEFINE next == Enqueue(<<NextType(t.key[1]), t.gen>>, then, t.by)
    <3>2. next.do = "enqueue" /\ next.key = <<NextType(t.key[1]), t.gen>>
      BY DEF Enqueue
    <3> HIDE DEF next
    <3>3. PICK new :
            /\ new.do = "enqueue" /\ new.key = <<NextType(t.key[1]), t.gen>>
            /\ FollowUp(t) = {new}
      BY <3>2, <3>1 DEF next
    <3>4. Fits(new.key)'
      BY <1>3, <2>5, <3>3, HopOfHand DEF Hand
    <3>5. HeldByTask(new) /\ new \in tasks' /\ TaskFits(new)'
      BY <1>0, <3>3, <3>4 DEF HeldByTask, TaskFits
    <3>6. OneHand'
      BY <2>2, <2>3, <3>3 DEF OneHand, HeldByTask
    <3>7. HandFits'
      BY <2>2, <2>3, <2>4, <3>3, <3>5 DEF HandFits
    <3>8. WorkIsHeld'
      BY <3>5 DEF WorkIsHeld, HeldByTask
    <3>9. QED
      BY <3>6, <3>7, <3>8 DEF Hand
  <2>6. CASE ~ Continues(t)
    <3>1. \A u \in tasks' : ~ HeldByTask(u)
      BY <2>3, <2>6, FollowUpForms DEF HeldByTask
    <3>2. status' \notin WorkingStages
      BY <1>3, <2>6, HopOfHand DEF Hand
    <3>3. OneHand'
      BY <2>2, <3>1 DEF OneHand, HeldByTask
    <3>4. HandFits'
      BY <2>2, <2>4, <3>1 DEF HandFits
    <3>5. QED
      BY <3>2, <3>3, <3>4 DEF Hand, WorkIsHeld
  <2>7. QED
    BY <2>5, <2>6
<1>4. QED
  BY <1>2, <1>3

\* Adding a job hands the content on to it: no other job has it
\* (enqueueTranscode, enqueueAnalysis, enqueueAutoEdit, enqueuePreview).
LEMMA EnqueueKeepsHand ==
  ASSUME QueueInv, Hand, NEW t \in tasks, EnqueueStep(t)
  PROVE  Hand'
<1>0. /\ t \in Task /\ t.do = "enqueue" /\ t.key \in JobKey
      /\ job \in [JobKey -> Job]
      /\ UNCHANGED <<content, events>>
      /\ job' = Add(t.key)
      /\ \A u \in tasks' : u \in tasks \ {t} \/ u.do = "resolve"
  BY TaskFields DEF QueueInv, TypeOK, EnqueueStep, Resolve
<1>1. /\ HeldByTask(t) /\ \A l \in JobKey : ~ HeldByJob(l)
      /\ \A u \in tasks : HeldByTask(u) => u = t
  BY <1>0 DEF Hand, OneHand, HeldByTask
<1>2. job' = [job EXCEPT ![t.key] = [state |-> "waiting", made |-> 0, source |-> SourceOf(t.key)]]
  BY <1>0, <1>1 DEF Add, HeldByJob, Running
<1>3. \A l \in JobKey : l # t.key => job'[l] = job[l]
  BY <1>0, <1>2
<1>4. HeldByJob(t.key)'
  BY <1>0, <1>2 DEF HeldByJob, Running
<1>5. \A l \in JobKey : l # t.key => ~ HeldByJob(l)'
  BY <1>0, <1>1, <1>3 DEF HeldByJob, Running
<1>6. \A u \in tasks' : ~ HeldByTask(u)
  BY <1>0, <1>1 DEF HeldByTask
<1>7. Fits(t.key)'
  BY <1>0 DEF Hand, HandFits, TaskFits, Fits, content
<1>8. OneHand'
  BY <1>5, <1>6 DEF OneHand, HeldByTask
<1>9. HandFits'
  <2>1. \A u \in tasks' : TaskFits(u)'
    BY <1>6 DEF TaskFits, HeldByTask
  <2>2. QED
    BY <1>5, <1>7, <2>1 DEF HandFits
<1>10. WorkIsHeld'
  BY <1>0, <1>4 DEF WorkIsHeld
<1>11. QED
  BY <1>8, <1>9, <1>10 DEF Hand

\* The jobs a request starts over: one, that fits the status; none if the
\* content was canceled meanwhile (requeueForStatus, regenerate).
LEMMA ReloadKeepsHand ==
  ASSUME QueueInv, Hand, NEW t \in tasks, Reload(t)
  PROVE  Hand'
<1> DEFINE keys == IF t.op = "regenerate" THEN {<<"auto_edit", generation>>}
                                          ELSE RequeueForStatus(status, generation)
<1>0. /\ t.do = "reload" /\ generation \in Generation
      /\ UNCHANGED <<content, events, job>>
      /\ tasks' = (tasks \ {t}) \union {Enqueue(k, "done", "user") : k \in keys}
  BY DEF QueueInv, TypeOK, Reload
<1>1. /\ HeldByTask(t) /\ \A l \in JobKey : ~ HeldByJob(l)
      /\ \A u \in tasks : HeldByTask(u) => u = t
  BY <1>0 DEF Hand, OneHand, HeldByTask
<1>2. \A l \in JobKey : ~ HeldByJob(l)'
  BY <1>0, <1>1 DEF HeldByJob, Running
<1>3. \/ status = "canceled" /\ keys = {}
      \/ \E k \in JobKey : keys = {k} /\ Fits(k)
  <2>1. /\ status \in {"processing", "analyzing", "preview_generating", "regenerating", "canceled"}
        /\ t.op = "regenerate" => status = "regenerating"
    BY <1>0 DEF Hand, HandFits, TaskFits
  <2>2. CASE t.op = "regenerate"
    BY <1>0, <2>1, <2>2, Keys DEF Fits
  <2>3. CASE t.op # "regenerate"
    <3>1. /\ status = "processing" => keys = {<<"transcode", generation>>}
          /\ status = "analyzing" => keys = {<<"analysis", generation>>}
          /\ status \in {"preview_generating", "regenerating"} => keys = {<<"auto_edit", generation>>}
          /\ status = "canceled" => keys = {}
      BY <2>3 DEF RequeueForStatus
    <3> HIDE DEF keys
    <3>2. CASE status = "processing"
      <4>1. <<"transcode", generation>> \in JobKey /\ Fits(<<"transcode", generation>>)
        BY <1>0, <3>2, Keys DEF Fits
      <4> QED
        BY <3>1, <3>2, <4>1
    <3>3. CASE status = "analyzing"
      <4>1. <<"analysis", generation>> \in JobKey /\ Fits(<<"analysis", generation>>)
        BY <1>0, <3>3, Keys DEF Fits
      <4> QED
        BY <3>1, <3>3, <4>1
    <3>4. CASE status \in {"preview_generating", "regenerating"}
      <4>1. <<"auto_edit", generation>> \in JobKey /\ Fits(<<"auto_edit", generation>>)
        BY <1>0, <3>4, Keys DEF Fits
      <4> QED
        BY <3>1, <3>4, <4>1
    <3>5. QED
      BY <2>1, <3>1, <3>2, <3>3, <3>4
  <2>4. QED
    BY <2>2, <2>3
<1> HIDE DEF keys
<1>4. CASE status = "canceled" /\ keys = {}
  <2>1. \A u \in tasks' : ~ HeldByTask(u)
    BY <1>0, <1>1, <1>4
  <2>2. OneHand'
    BY <1>2, <2>1 DEF OneHand, HeldByTask
  <2>3. HandFits'
    BY <1>2, <2>1 DEF HandFits, TaskFits, HeldByTask
  <2>4. WorkIsHeld'
    BY <1>0, <1>4 DEF WorkIsHeld, WorkingStages, content
  <2>5. QED
    BY <2>2, <2>3, <2>4 DEF Hand
<1>5. ASSUME NEW k \in JobKey, keys = {k}, Fits(k) PROVE Hand'
  <2> DEFINE new == Enqueue(k, "done", "user")
  <2>1. tasks' = (tasks \ {t}) \union {new} /\ new.do = "enqueue" /\ new.key = k
    BY <1>0, <1>5 DEF Enqueue
  <2> HIDE DEF new
  <2>2. HeldByTask(new) /\ \A u \in tasks' : HeldByTask(u) => u = new
    BY <1>1, <2>1 DEF HeldByTask
  <2>3. OneHand'
    BY <1>2, <2>2 DEF OneHand, HeldByTask
  <2>4. Fits(k)'
    BY <1>0, <1>5 DEF Fits, content
  <2>5. HandFits'
    <3>1. TaskFits(new)'
      BY <2>1, <2>4 DEF TaskFits
    <3>2. \A u \in tasks' : ~ HeldByTask(u) => TaskFits(u)'
      BY DEF TaskFits, HeldByTask
    <3>3. QED
      BY <1>2, <2>2, <3>1, <3>2 DEF HandFits
  <2>6. WorkIsHeld'
    BY <2>1, <2>2 DEF WorkIsHeld, HeldByTask
  <2>7. QED
    BY <2>3, <2>5, <2>6 DEF Hand
<1>6. QED
  BY <1>3, <1>4, <1>5

\* A retry or a regeneration takes the content into its hand; it is asked for
\* where nobody else has it (retry, regenerate).
LEMMA RestartKeepsHand ==
  ASSUME QueueInv, Hand, status \in PipelineStatus, Retry \/ Regenerate
  PROVE  Hand'
<1>1. /\ status \notin WorkingStages /\ status # "canceled"
      /\ status' \in {"processing", "analyzing", "preview_generating", "regenerating"}
      /\ UNCHANGED <<job, events>>
  <2>1. CASE Retry
    <3>1. FailureStatus = {"upload_failed", "processing_failed", "analysis_failed",
                           "preview_failed", "regeneration_failed", "publish_failed"}
      BY DEF FailureStatus, CONTENT_RETRY_TARGET
    <3>2. status \in FailedStages
      BY <2>1, <3>1 DEF Retry, PipelineStatus, WorkingStages, FailedStages, ReviewStatus
    <3>3. /\ CONTENT_RETRY_TARGET["processing_failed"] = "processing"
          /\ CONTENT_RETRY_TARGET["analysis_failed"] = "analyzing"
          /\ CONTENT_RETRY_TARGET["preview_failed"] = "preview_generating"
          /\ CONTENT_RETRY_TARGET["regeneration_failed"] = "regenerating"
      BY DEF CONTENT_RETRY_TARGET
    <3>4. QED
      BY <2>1, <3>2, <3>3 DEF Retry, FailedStages, WorkingStages
  <2>2. CASE Regenerate
    BY <2>2 DEF Regenerate, WorkingStages
  <2>3. QED
    BY <2>1, <2>2
<1>2. /\ \A k \in JobKey : ~ HeldByJob(k)
      /\ \A t \in tasks : ~ HeldByTask(t)
  BY <1>1, UsersFindNoHand DEF Hand
<1>3. \A k \in JobKey : ~ HeldByJob(k)'
  BY <1>1, <1>2 DEF HeldByJob, Running
<1>4. PICK op \in {"retry", "regenerate"} :
        /\ tasks' = tasks \union {Request(op)}
        /\ op = "regenerate" => status' = "regenerating"
  BY DEF Retry, Regenerate
<1> DEFINE new == Request(op)
<1>5. tasks' = tasks \union {new} /\ new.do = "reload" /\ new.op = op
  BY <1>4 DEF Request
<1> HIDE DEF new
<1>6. HeldByTask(new) /\ \A t \in tasks' : HeldByTask(t) => t = new
  BY <1>2, <1>5 DEF HeldByTask
<1>7. OneHand'
  BY <1>3, <1>6 DEF OneHand, HeldByTask
<1>8. HandFits'
  <2>1. TaskFits(new)'
    BY <1>1, <1>4, <1>5 DEF TaskFits
  <2>2. \A t \in tasks' : ~ HeldByTask(t) => TaskFits(t)'
    BY DEF TaskFits, HeldByTask
  <2>3. QED
    BY <1>3, <1>6, <2>1, <2>2 DEF HandFits
<1>9. WorkIsHeld'
  BY <1>5, <1>6 DEF WorkIsHeld, HeldByTask
<1>10. QED
  BY <1>7, <1>8, <1>9 DEF Hand

\* A decision of the review finds nobody moving the content; a cancellation
\* may, and the hand goes on with a canceled content (the review operations
\* and cancel of ContentWorkflowService).
LEMMA DecisionKeepsHand ==
  ASSUME QueueInv, Hand, RequestRevision \/ EndReview \/ Cancel
  PROVE  Hand'
<1>0. UNCHANGED <<job, events, tasks, generation>> /\ status \in Status
  BY DEF QueueInv, TypeOK, RequestRevision, EndReview, Cancel
<1>1. \A l \in JobKey : HeldByJob(l)' <=> HeldByJob(l)
  BY <1>0 DEF HeldByJob, Running
<1>2. OneHand'
  BY <1>0, <1>1 DEF Hand, OneHand, HeldByTask
<1>3. WorkIsHeld'
  <2>1. status' \notin WorkingStages
    BY DEF RequestRevision, EndReview, Cancel, WorkingStages
  <2>2. QED
    BY <2>1 DEF WorkIsHeld
<1>4. CASE RequestRevision \/ EndReview
  <2>1. /\ \A k \in JobKey : ~ HeldByJob(k)
        /\ \A t \in tasks : ~ HeldByTask(t)
    BY <1>4, UsersFindNoHand DEF Hand, RequestRevision, EndReview, ReviewStatus, WorkingStages
  <2>2. HandFits'
    BY <1>0, <1>1, <2>1 DEF HandFits, TaskFits, HeldByTask
  <2>3. QED
    BY <1>2, <1>3, <2>2 DEF Hand
<1>5. CASE Cancel
  <2>1. /\ status' = "canceled"
        /\ status \in Status /\ "canceled" \in CONTENT_STATUS_TRANSITIONS[status]
    BY <1>0, <1>5 DEF Cancel, CanTransitionContent
  <2>2. status \notin {"preview_generating", "regenerating"}
    BY <2>1 DEF CONTENT_STATUS_TRANSITIONS
  <2>3. \A k \in JobKey : Fits(k) => Fits(k)'
    BY <1>0, <2>1, <2>2, Keys DEF Fits
  <2>4. ASSUME NEW u \in tasks, TaskFits(u) PROVE TaskFits(u)'
    <3>1. u \in Task
      BY DEF QueueInv, TypeOK
    <3>2. u.do = "enqueue" \/ u.do = "hop" => u.key \in JobKey
      BY <3>1, TaskFields
    <3>3. u.do = "hop" /\ u.name # "active" => u.key[1] # "auto_edit"
      BY <2>2, <2>4 DEF TaskFits, Fits
    <3>4. QED
      BY <1>0, <2>1, <2>2, <2>3, <2>4, <3>2, <3>3 DEF TaskFits
  <2>5. HandFits'
    BY <1>0, <1>1, <2>3, <2>4 DEF Hand, HandFits
  <2>6. QED
    BY <1>2, <1>3, <2>5 DEF Hand
<1>6. QED
  BY <1>4, <1>5

\* As long as the api does not crash, every step leaves the content in one
\* hand at most, and in one if it is being worked on.
LEMMA NextHand ==
  ASSUME QueueInv, Hand, Undisturbed, status \in PipelineStatus, [Next]_vars, ~ Crash
  PROVE  Hand'
<1>1. ASSUME NEW t \in tasks, ResolveStep(t) PROVE Hand'
  <2>1. t.do = "resolve" /\ tasks' = tasks \ {t}
        /\ UNCHANGED <<status, generation, job, events>>
    BY <1>1 DEF ResolveStep
  <2>2. \A l \in JobKey : HeldByJob(l)' <=> HeldByJob(l)
    BY <2>1 DEF HeldByJob, Running
  <2>3. OneHand'
    BY <2>1, <2>2 DEF Hand, OneHand, HeldByTask
  <2>4. HandFits'
    BY <2>1, <2>2 DEF Hand, HandFits, Fits, TaskFits
  <2>5. WorkIsHeld'
    BY <2>1, <2>2 DEF Hand, WorkIsHeld, HeldByTask
  <2>6. QED
    BY <2>3, <2>4, <2>5 DEF Hand
<1>2. CASE UNCHANGED vars
  BY <1>2 DEF vars, content, Hand, OneHand, HandFits, WorkIsHeld, HeldByJob, HeldByTask,
              Running, Fits, TaskFits
<1>3. ~ Boot /\ ~ ScanStep
  BY DEF Undisturbed, Boot, ScanStep, ScanJob, ScanPhase, NoScan
<1>4. QED
  BY <1>1, <1>2, <1>3, WorkKeepsHand, DeliverKeepsHand, HopKeepsHand, EnqueueKeepsHand,
     ReloadKeepsHand, RestartKeepsHand, DecisionKeepsHand
     DEF Undisturbed, Next, Work, DeliverSome, TaskStep, User

-------------------------------------------------------------------------------
(* Statuses, revision requests and edits, while the api does not crash *)

\* No step leads out of the pipeline's statuses (applySystemTransition and the
\* users' operations).
LEMMA NextStatus ==
  ASSUME QueueInv, status \in PipelineStatus, [Next]_vars
  PROVE  status' \in PipelineStatus
<1>1. ASSUME NEW t \in tasks, HopStep(t) PROVE status' \in PipelineStatus
  <2>1. /\ t.name \in {"active", "completed", "failed"}
        /\ t.key[1] \in {"transcode", "analysis", "auto_edit", "preview"}
        /\ t.name = "active" => t.key[1] = "transcode"
        /\ status' = status \/ status' = HopTo(t)
    BY <1>1, TaskFields, Keys DEF HopStep, QueueInv, TypeOK
  <2>2. HopTo(t) \in PipelineStatus
    BY <2>1, HopTargets
       DEF PreviewReviewTarget, PipelineStatus, WorkingStages, FailedStages, ReviewStatus
  <2>3. QED
    BY <2>1, <2>2
<1>2. CASE Retry
  <2>1. status' \in {"uploading", "processing", "analyzing", "preview_generating",
                     "regenerating", "publishing"}
    BY <1>2, RetryFacts DEF Retry
  <2>2. status \in FailedStages
    <3>1. FailureStatus = {"upload_failed", "processing_failed", "analysis_failed",
                           "preview_failed", "regeneration_failed", "publish_failed"}
      BY DEF FailureStatus, CONTENT_RETRY_TARGET
    <3>2. QED
      BY <1>2, <3>1 DEF Retry, PipelineStatus, WorkingStages, FailedStages, ReviewStatus
  <2>3. \A s \in FailedStages : CONTENT_RETRY_TARGET[s] # "uploading"
    BY DEF CONTENT_RETRY_TARGET, FailedStages
  <2>4. QED
    BY <1>2, <2>1, <2>2, <2>3 DEF Retry, PipelineStatus, WorkingStages
<1>3. CASE Regenerate \/ RequestRevision \/ EndReview \/ Cancel
  BY <1>3 DEF Regenerate, RequestRevision, EndReview, Cancel, PipelineStatus, WorkingStages,
              ReviewStatus
<1>4. CASE UNCHANGED status
  BY <1>4
<1>5. QED
  BY <1>1, <1>2, <1>3, <1>4
     DEF Next, Work, DeliverSome, TaskStep, ScanStep, User, Start, Succeed, Fail, Deliver,
         EnqueueStep, ResolveStep, Reload, ScanJob, ScanPhase, Crash, Boot, content, vars

\* Which steps end the task that closes revision requests: the one that adds
\* the preview hands it on, the one that closes them ends it.
LEMMA ResolvingStays ==
  ASSUME QueueInv, [Next]_vars, ~ Crash, NEW u \in tasks, Resolving(u), revisionOpen'
  PROVE  \E t \in tasks' : Resolving(t)
<1>1. u \in Task
  BY DEF QueueInv, TypeOK
<1>2. CASE u \in tasks'
  BY <1>2
<1>3. CASE u \notin tasks'
  <2>1. ASSUME NEW t \in tasks, EnqueueStep(t) PROVE \E v \in tasks' : Resolving(v)
    <3>1. t = u
      BY <1>3, <2>1 DEF EnqueueStep
    <3>2. t.then = "resolve"
      BY <2>1, <3>1 DEF EnqueueStep, Resolving
    <3>3. Resolve(t.by) \in tasks' /\ Resolve(t.by).do = "resolve"
      BY <2>1, <3>2 DEF EnqueueStep, Resolve
    <3>4. QED
      BY <3>3 DEF Resolving
  <2>2. ASSUME NEW t \in tasks, HopStep(t) \/ ResolveStep(t) \/ Reload(t) PROVE FALSE
    <3>1. t = u
      BY <1>3, <2>2 DEF HopStep, ResolveStep, Reload
    <3>2. u.do = "resolve" => ~ ResolveStep(t)
      BY DEF ResolveStep
    <3>3. QED
      BY <2>2, <3>1, <3>2 DEF HopStep, Reload, Resolving, ResolveStep
  <2>3. QED
    BY <1>3, <2>1, <2>2
       DEF Next, Work, DeliverSome, TaskStep, ScanStep, User, Start, Succeed, Fail, Deliver,
           Handle, ScanJob, ScanPhase, Boot, Retry, Regenerate, RequestRevision, EndReview,
           Cancel, vars
<1>4. QED
  BY <1>2, <1>3

\* An open revision request stays one that is expected: the content leaves the
\* rework only with a task that closes it (requestRevision,
\* resolveRevisionRequests).
LEMMA NextOpen ==
  ASSUME QueueInv, OpenIsExpected, [Next]_vars, ~ Crash
  PROVE  OpenIsExpected'
<1> DEFINE Rework == {"revision_requested", "regenerating", "regeneration_failed", "canceled"}
<1> SUFFICES ASSUME revisionOpen', \A t \in tasks' : ~ Resolving(t)
             PROVE  status' \in Rework
  BY DEF OpenIsExpected, Resolving
<1>1. revisionOpen => status \in Rework
  BY ResolvingStays DEF OpenIsExpected
<1>2. ASSUME NEW t \in tasks, HopStep(t) PROVE status' \in Rework
  <2>1. /\ t.do = "hop" /\ t.name \in {"active", "completed", "failed"}
        /\ t.key[1] \in {"transcode", "analysis", "auto_edit", "preview"}
        /\ t.name = "active" => t.key[1] = "transcode"
        /\ status' = IF Applies(t) THEN HopTo(t) ELSE status
        /\ status \in Rework
        /\ FollowUp(t) \subseteq tasks'
    BY <1>1, <1>2, TaskFields, Keys DEF HopStep, QueueInv, TypeOK
  <2>2. CASE ~ Applies(t)
    BY <2>1, <2>2
  <2>3. CASE Applies(t)
    <3>1. t.key[1] = "auto_edit" /\ t.seen = "regenerating" /\ t.name # "active"
      BY <2>1, <2>3, HopSources DEF Applies
    <3>2. t.name # "completed"
      <4>1. SUFFICES ASSUME t.name = "completed" PROVE FALSE
        OBVIOUS
      <4>2. Continues(t) /\ Editing(t)
        BY <2>3, <3>1, <4>1 DEF Continues, Editing
      <4>3. FollowUp(t) = {Enqueue(<<NextType(t.key[1]), t.gen>>, "resolve", t.by)}
        BY <3>1, <4>2, FollowUpForms
      <4>4. QED
        BY <2>1, <4>3 DEF Enqueue, Resolving
    <3>3. HopTo(t) = "regeneration_failed"
      BY <2>1, <3>1, <3>2, HopTargets
    <3>4. QED
      BY <2>1, <2>3, <3>3
  <2>4. QED
    BY <2>2, <2>3
<1>3. CASE Retry
  <2>1. status \in Rework
    BY <1>1, <1>3 DEF Retry
  <2>2. FailureStatus = {"upload_failed", "processing_failed", "analysis_failed",
                         "preview_failed", "regeneration_failed", "publish_failed"}
    BY DEF FailureStatus, CONTENT_RETRY_TARGET
  <2>3. status = "regeneration_failed"
    BY <1>3, <2>1, <2>2 DEF Retry
  <2>4. CONTENT_RETRY_TARGET["regeneration_failed"] = "regenerating"
    BY DEF CONTENT_RETRY_TARGET
  <2>5. QED
    BY <1>3, <2>3, <2>4 DEF Retry
<1>4. CASE Regenerate \/ RequestRevision \/ Cancel
  BY <1>4 DEF Regenerate, RequestRevision, Cancel
<1>5. CASE EndReview
  BY <1>1, <1>5 DEF EndReview, ReviewStatus
<1>6. CASE UNCHANGED <<status, revisionOpen>>
  BY <1>1, <1>6
<1>7. ASSUME NEW t \in tasks, ResolveStep(t) PROVE FALSE
  BY <1>7 DEF ResolveStep
<1>8. QED
  BY <1>2, <1>3, <1>4, <1>5, <1>6, <1>7
     DEF Next, Work, DeliverSome, TaskStep, ScanStep, User, Start, Succeed, Fail, Deliver,
         EnqueueStep, Reload, ScanJob, ScanPhase, Boot, content, vars

\* An edit stays stored, whatever is stored after it; and so does a preview
\* made from an edit, as long as previews are (upsertOutput).
LEMMA AssetsStay ==
  ASSUME QueueInv, EditsAreStored, Undisturbed, [Next]_vars, ~ Crash, NEW g \in Generation
  PROVE  /\ HasMaster(g) => HasMaster(g)'
         /\ <<"preview", g, "edited_master">> \in assets
              => <<"preview", g, "edited_master">> \in assets'
<1>1. CASE UNCHANGED assets
  BY <1>1 DEF HasMaster
<1>2. ASSUME NEW e \in events, Deliver(e), assets' # assets
      PROVE  /\ HasMaster(g) => HasMaster(g)'
             /\ <<"preview", g, "edited_master">> \in assets
                  => <<"preview", g, "edited_master">> \in assets'
  <2>1. /\ e.key \in JobKey /\ job[e.key].state = "completed" /\ assets' = Upsert(e.key)
    BY <1>2, EndsAreActedOn DEF Deliver, Handle, Stored, QueueInv, TypeOK
  <2> DEFINE k == e.key
             kind == IF k[1] = "auto_edit" THEN "edited_master" ELSE k[1]
             out == <<kind, k[2], job[k].source>>
  <2>2. assets' = {a \in assets : ~ (a[1] = kind /\ a[2] = k[2])} \union {out}
    BY <2>1 DEF Upsert
  <2>3. out[1] = kind /\ out[2] = k[2] /\ out \in assets'
    BY <2>2
  <2>4. kind = "preview" => out = <<"preview", k[2], "edited_master">>
    <3>1. ASSUME kind = "preview" PROVE k = <<"preview", k[2]>> /\ k[2] \in Generation
      BY <2>1, <3>1, Keys
    <3>2. QED
      BY <2>1, <3>1 DEF EditsAreStored
  <2> HIDE DEF k, kind, out
  <2>5. HasMaster(g) => HasMaster(g)'
    <3>1. SUFFICES ASSUME NEW a \in assets, a[1] = "edited_master", a[2] = g
                   PROVE  \E b \in assets' : b[1] = "edited_master" /\ b[2] = g
      BY DEF HasMaster
    <3>2. CASE a[1] = kind /\ a[2] = k[2]
      BY <2>3, <3>1, <3>2
    <3>3. CASE ~ (a[1] = kind /\ a[2] = k[2])
      BY <2>2, <3>1, <3>3
    <3>4. QED
      BY <3>2, <3>3
  <2>6. ASSUME <<"preview", g, "edited_master">> \in assets
        PROVE  <<"preview", g, "edited_master">> \in assets'
    <3>1. CASE kind = "preview" /\ k[2] = g
      BY <2>3, <2>4, <3>1
    <3>2. CASE ~ (kind = "preview" /\ k[2] = g)
      BY <2>2, <2>6, <3>2
    <3>3. QED
      BY <3>1, <3>2
  <2>7. QED
    BY <2>5, <2>6
<1>3. ~ ScanStep
  BY DEF Undisturbed, ScanStep, ScanJob, ScanPhase, NoScan
<1>4. QED
  BY <1>1, <1>2, <1>3
     DEF Next, Work, DeliverSome, TaskStep, User, Start, Succeed, Fail,
         EnqueueStep, ResolveStep, Reload, HopStep, Boot, Retry, Regenerate, RequestRevision,
         EndReview, Cancel, vars

\* The tasks of a step are those it found, and new ones that stand for what
\* is stored: the edit before its preview is added, the output before the hop.
LEMMA NextEditsKnown ==
  ASSUME QueueInv, HandFits, EditsAreStored, Undisturbed, [Next]_vars, ~ Crash
  PROVE  \A t \in tasks' : EditKnown(t)'
<1>0. tasks \subseteq Task /\ \A t \in tasks : EditKnown(t)
  BY DEF QueueInv, TypeOK, EditsAreStored, EditKnown
<1>1. ASSUME NEW t \in tasks PROVE EditKnown(t)'
  <2>1. t.do \in {"enqueue", "hop"} => t.key[2] \in Generation
    BY <1>0, TaskFields, Keys
  <2>2. QED
    BY <1>0, <2>1, AssetsStay DEF EditKnown
<1>2. ASSUME NEW e \in events, Deliver(e), NEW u \in tasks', u \notin tasks
      PROVE  EditKnown(u)'
  <2>1. e.key \in JobKey
    BY DEF QueueInv, TypeOK
  <2>2. /\ u.do = "hop" /\ u.name = e.name /\ u.key = e.key
        /\ ActsOn(e.name, e.key) /\ assets' = Stored(e.name, e.key)
    BY <1>2 DEF Deliver, Handle
  <2>3. CASE e.name = "completed"
    <3>1. job[e.key].state = "completed" /\ assets' = Upsert(e.key)
      BY <2>1, <2>2, <2>3, EndsAreActedOn DEF Stored
    <3>2. e.key[1] = "auto_edit" => HasMaster(e.key[2])'
      <4>1. SUFFICES ASSUME e.key[1] = "auto_edit" PROVE HasMaster(e.key[2])'
        OBVIOUS
      <4>2. <<"edited_master", e.key[2], job[e.key].source>> \in assets'
        BY <3>1, <4>1 DEF Upsert
      <4>3. QED
        BY <4>2 DEF HasMaster
    <3>3. e.key[1] = "preview" => <<"preview", e.key[2], "edited_master">> \in assets'
      <4>1. SUFFICES ASSUME e.key[1] = "preview"
                     PROVE  <<"preview", e.key[2], "edited_master">> \in assets'
        OBVIOUS
      <4>2. e.key = <<"preview", e.key[2]>> /\ e.key[2] \in Generation
        BY <2>1, <4>1, Keys
      <4>3. job[e.key].source = "edited_master"
        BY <3>1, <4>2 DEF EditsAreStored
      <4>4. QED
        BY <3>1, <4>1, <4>3 DEF Upsert
    <3>4. QED
      BY <2>2, <3>2, <3>3 DEF EditKnown
  <2>4. CASE e.name # "completed"
    BY <2>2, <2>4 DEF EditKnown
  <2>5. QED
    BY <2>3, <2>4
<1>3. ASSUME NEW t \in tasks, HopStep(t), NEW u \in tasks', u \notin tasks
      PROVE  EditKnown(u)'
  <2>1. /\ t.do = "hop" /\ assets' = assets /\ u \in FollowUp(t)
        /\ t.key[1] \in {"transcode", "analysis", "auto_edit", "preview"}
    BY <1>0, <1>3, TaskFields, Keys DEF HopStep
  <2>2. CASE Continues(t)
    <3>1. PICK then : u = Enqueue(<<NextType(t.key[1]), t.gen>>, then, t.by)
      BY <2>1, <2>2, FollowUpForms
    <3>2. u.do = "enqueue" /\ u.key = <<NextType(t.key[1]), t.gen>>
      BY <3>1 DEF Enqueue
    <3>3. CASE t.key[1] = "auto_edit"
      <4>1. t.name = "completed" /\ t.gen = t.key[2]
        BY <2>1, <2>2, <3>3 DEF Continues, HandFits, TaskFits, Fits
      <4>2. HasMaster(t.key[2])
        BY <1>0, <2>1, <3>3, <4>1 DEF EditKnown
      <4>3. HasMaster(u.key[2])'
        BY <2>1, <3>2, <4>1, <4>2 DEF HasMaster
      <4>4. QED
        BY <3>2, <4>3 DEF EditKnown
    <3>4. CASE t.key[1] # "auto_edit"
      <4>1. u.key[1] # "preview"
        BY <2>1, <2>2, <3>2, <3>4 DEF NextType, Continues
      <4>2. QED
        BY <3>2, <4>1 DEF EditKnown
    <3>5. QED
      BY <3>3, <3>4
  <2>3. CASE ~ Continues(t)
    BY <2>1, <2>3, FollowUpForms DEF EditKnown
  <2>4. QED
    BY <2>2, <2>3
<1>4. ASSUME NEW t \in tasks, EnqueueStep(t), NEW u \in tasks', u \notin tasks
      PROVE  EditKnown(u)'
  <2>1. u.do = "resolve"
    BY <1>4 DEF EnqueueStep, Resolve
  <2>2. QED
    BY <2>1 DEF EditKnown
<1>5. ASSUME NEW t \in tasks, Reload(t), NEW u \in tasks', u \notin tasks
      PROVE  EditKnown(u)'
  <2> DEFINE keys == IF t.op = "regenerate" THEN {<<"auto_edit", generation>>}
                                            ELSE RequeueForStatus(status, generation)
  <2>1. \A k \in keys : k[1] # "preview"
    BY DEF RequeueForStatus
  <2>2. tasks' = (tasks \ {t}) \union {Enqueue(k, "done", "user") : k \in keys}
    BY <1>5 DEF Reload
  <2> HIDE DEF keys
  <2>3. \E k \in keys : u = Enqueue(k, "done", "user")
    BY <1>5, <2>2
  <2>4. u.do = "enqueue" /\ u.key[1] # "preview"
    BY <2>1, <2>3 DEF Enqueue
  <2>5. QED
    BY <2>4 DEF EditKnown
<1>6. ASSUME Retry \/ Regenerate, NEW u \in tasks', u \notin tasks PROVE EditKnown(u)'
  <2>1. u.do = "reload"
    BY <1>6 DEF Retry, Regenerate, Request
  <2>2. QED
    BY <2>1 DEF EditKnown
<1>7. ~ ScanStep /\ ~ Boot
  BY DEF Undisturbed, ScanStep, ScanJob, ScanPhase, Boot, NoScan
<1>8. ASSUME NEW u \in tasks', u \notin tasks PROVE EditKnown(u)'
  BY <1>2, <1>3, <1>4, <1>5, <1>6, <1>7, <1>8
     DEF Next, Work, DeliverSome, TaskStep, User, Start, Succeed, Fail, ResolveStep,
         RequestRevision, EndReview, Cancel, vars
<1>9. QED
  BY <1>1, <1>8

\* A preview is made from the edit of its generation: its job is added when
\* that edit is stored (requireProcessingSource).
LEMMA NextPreviewSource ==
  ASSUME QueueInv, EditsAreStored, [Next]_vars, NEW g \in Generation,
         job'[<<"preview", g>>].state # "absent"
  PROVE  job'[<<"preview", g>>].source = "edited_master"
<1> DEFINE p == <<"preview", g>>
<1>0. /\ job \in [JobKey -> Job] /\ p \in JobKey /\ p[1] = "preview" /\ p[2] = g
      /\ job[p].state # "absent" => job[p].source = "edited_master"
  BY Keys DEF QueueInv, TypeOK, EditsAreStored
<1>1. ASSUME NEW k \in JobKey, Start(k) \/ Succeed(k) \/ Fail(k)
      PROVE  job'[p].source = job[p].source /\ job[p].state # "absent"
  <2>1. job[k].state # "absent"
    BY <1>1 DEF Start, Succeed, Fail
  <2>2. \A l \in JobKey : job'[l].source = job[l].source /\ (l # k => job'[l] = job[l])
    BY <1>0, <1>1 DEF Start, Succeed, Fail, Job
  <2>3. QED
    BY <1>0, <2>1, <2>2
<1>2. ASSUME NEW t \in tasks, EnqueueStep(t) PROVE job'[p].source = "edited_master"
  <2>1. t.do = "enqueue" /\ t.key \in JobKey /\ job' = Add(t.key)
    BY <1>2, TaskFields DEF EnqueueStep, QueueInv, TypeOK
  <2>2. CASE job' = job
    BY <1>0, <2>2
  <2>3. CASE job' # job
    <3>1. job' = [job EXCEPT ![t.key] =
                    [state |-> "waiting", made |-> 0, source |-> SourceOf(t.key)]]
      BY <2>1, <2>3 DEF Add
    <3>2. t.key = p => SourceOf(t.key) = "edited_master"
      BY <1>0, <1>2, <2>1 DEF EditsAreStored, EditKnown, SourceOf
    <3>3. QED
      BY <1>0, <2>1, <3>1, <3>2
  <2>4. QED
    BY <2>2, <2>3
<1>3. CASE UNCHANGED job
  BY <1>0, <1>3
<1>4. QED
  BY <1>0, <1>1, <1>2, <1>3
     DEF Next, Work, DeliverSome, TaskStep, ScanStep, User, Deliver, HopStep, ResolveStep,
         Reload, ScanJob, ScanPhase, Retry, Regenerate, RequestRevision, EndReview, Cancel,
         Crash, Boot, vars

\* Only the end of a preview brings a content under review, and only when that
\* preview is stored (previewReviewTarget).
LEMMA NextReview ==
  ASSUME QueueInv, HandFits, EditsAreStored, Undisturbed, [Next]_vars, ~ Crash
  PROVE  ReviewSeesTheEdit'
<1> SUFFICES ASSUME status' \in ReviewStatus
             PROVE  <<"preview", generation', "edited_master">> \in assets'
  BY DEF ReviewSeesTheEdit
<1>0. generation \in Generation
  BY DEF QueueInv, TypeOK
<1>1. CASE status \in ReviewStatus /\ generation' = generation
  BY <1>0, <1>1, AssetsStay DEF EditsAreStored, ReviewSeesTheEdit
<1>2. ASSUME NEW t \in tasks, HopStep(t), status \notin ReviewStatus
      PROVE  <<"preview", generation', "edited_master">> \in assets'
  <2>1. /\ t.do = "hop" /\ t.name \in {"active", "completed", "failed"}
        /\ t.key[1] \in {"transcode", "analysis", "auto_edit", "preview"}
        /\ t.name = "active" => t.key[1] = "transcode"
        /\ status' = HopTo(t) /\ generation' = generation /\ assets' = assets
    BY <1>2, TaskFields, Keys DEF HopStep, QueueInv, TypeOK
  <2>2. t.name = "completed" /\ t.key[1] = "preview"
    BY <2>1, HopTargets DEF ReviewStatus
  <2>3. t.key[2] = generation
    BY <2>1, <2>2 DEF HandFits, TaskFits, Fits
  <2>4. QED
    BY <2>1, <2>2, <2>3 DEF EditsAreStored, EditKnown
<1>3. CASE UNCHANGED <<status, generation>>
  BY <1>1, <1>3
<1>4. ~ Retry
  <2>1. "awaiting_reporter_review" \notin {CONTENT_RETRY_TARGET[s] : s \in FailureStatus}
        /\ "awaiting_center_review" \notin {CONTENT_RETRY_TARGET[s] : s \in FailureStatus}
    BY RetryFacts
  <2>2. QED
    BY <2>1 DEF Retry, ReviewStatus
<1>5. ~ Regenerate /\ ~ RequestRevision /\ ~ Cancel
  BY DEF Regenerate, RequestRevision, Cancel, ReviewStatus
<1>6. CASE EndReview
  BY <1>1, <1>6 DEF EndReview
<1>7. ASSUME NEW t \in tasks, HopStep(t)
      PROVE  <<"preview", generation', "edited_master">> \in assets'
  BY <1>1, <1>2, <1>7 DEF HopStep
<1>8. QED
  BY <1>3, <1>4, <1>5, <1>6, <1>7
     DEF Next, Work, DeliverSome, TaskStep, ScanStep, User, Start, Succeed, Fail, Deliver,
         EnqueueStep, ResolveStep, Reload, ScanJob, ScanPhase, Boot, content, vars

-------------------------------------------------------------------------------
(* The theorems of crash-free behaviour *)

\* At first the transcode of the content is about to be added.
LEMMA InitPipelineInv == Init => PipelineInv
<1> SUFFICES ASSUME Init PROVE CrashFree
  BY InitQueueInv DEF PipelineInv
<1>1. /\ status = "uploaded" /\ generation = 1 /\ revisionOpen = FALSE /\ events = {}
      /\ \A k \in JobKey : job[k].state = "absent"
      /\ Undisturbed
  BY DEF Init, Absent, Undisturbed
<1>2. PICK new : /\ tasks = {new} /\ new.do = "enqueue" /\ new.key = <<"transcode", 1>>
                 /\ new.then = "done"
  <2> DEFINE first == Enqueue(<<"transcode", 1>>, "done", "user")
  <2>1. first.do = "enqueue" /\ first.key = <<"transcode", 1>> /\ first.then = "done"
    BY DEF Enqueue
  <2>2. tasks = {first}
    BY DEF Init
  <2> HIDE DEF first
  <2>3. QED
    BY <2>1, <2>2
<1>3. HeldByTask(new) /\ \A k \in JobKey : ~ HeldByJob(k)
  BY <1>1, <1>2 DEF HeldByTask, HeldByJob, Running
<1>4. OneHand /\ WorkIsHeld
  BY <1>2, <1>3 DEF OneHand, WorkIsHeld
<1>5. HandFits
  BY <1>1, <1>2, <1>3 DEF HandFits, TaskFits, Fits
<1>6. OpenIsExpected /\ status \in PipelineStatus
  BY <1>1 DEF OpenIsExpected, PipelineStatus, WorkingStages
<1>7. EditsAreStored
  <2>1. \A g \in Generation : <<"preview", g>> \in JobKey
    BY Keys
  <2>2. QED
    BY <1>1, <1>2, <2>1 DEF EditsAreStored, EditKnown, ReviewSeesTheEdit, ReviewStatus
<1>8. QED
  BY <1>1, <1>4, <1>5, <1>6, <1>7 DEF CrashFree

\* Every step keeps the one hand and what it stands for, until a crash.
LEMMA NextPipelineInv == PipelineInv /\ [Next]_vars => PipelineInv'
<1> SUFFICES ASSUME PipelineInv, [Next]_vars PROVE PipelineInv'
  OBVIOUS
<1>1. QueueInv /\ QueueInv'
  BY NextQueueInv DEF PipelineInv
<1>2. CASE Crash
  <2>1. crashes \in Nat /\ crashes' = crashes + 1
    BY <1>1, <1>2 DEF QueueInv, TypeOK, Crash
  <2>2. crashes' # 0
    BY <2>1
  <2>3. QED
    BY <1>1, <2>2 DEF PipelineInv
<1>3. CASE ~ Crash
  <2>1. crashes' = crashes
    BY <1>3 DEF Next, Work, DeliverSome, TaskStep, ScanStep, User, Start, Succeed, Fail,
                Deliver, HopStep, EnqueueStep, ResolveStep, Reload, ScanJob, ScanPhase, Retry,
                Regenerate, RequestRevision, EndReview, Cancel, Boot, api, vars
  <2> SUFFICES ASSUME crashes = 0 PROVE CrashFree'
    BY <1>1, <2>1 DEF PipelineInv
  <2>2. CrashFree
    BY DEF PipelineInv
  <2>3. Undisturbed'
    <3>1. ~ Boot /\ ~ ScanStep
      BY <2>2 DEF CrashFree, Undisturbed, Boot, ScanStep, ScanJob, ScanPhase, NoScan
    <3>2. up' = up /\ scan' = scan
      BY <1>3, <3>1
         DEF Next, Work, DeliverSome, TaskStep, User, Start, Succeed, Fail, Deliver, HopStep,
             EnqueueStep, ResolveStep, Reload, Retry, Regenerate, RequestRevision, EndReview,
             Cancel, api, vars
    <3>3. QED
      BY <2>2, <3>2 DEF CrashFree, Undisturbed, NoScan
  <2>4. Hand'
    BY <1>1, <1>3, <2>2, NextHand DEF CrashFree, Hand
  <2>5. status' \in PipelineStatus
    BY <1>1, <2>2, NextStatus DEF CrashFree
  <2>6. OpenIsExpected'
    BY <1>1, <1>3, <2>2, NextOpen DEF CrashFree
  <2>7. EditsAreStored'
    BY <1>1, <1>3, <2>2, NextEditsKnown, NextPreviewSource, NextReview
       DEF CrashFree, EditsAreStored, EditKnown
  <2>8. PipelineStatus' = PipelineStatus
    OBVIOUS
  <2>9. QED
    BY <2>3, <2>4, <2>5, <2>6, <2>7, <2>8 DEF CrashFree, Hand
<1>4. QED
  BY <1>2, <1>3

\* As long as the api has not crashed, the content is in one hand at most: no
\* two jobs of it run, and none while a request or a handler is about to add
\* another, whatever users retry, regenerate or cancel meanwhile
\* (mediaJobId, analysisJobId, requeueForStatus).
THEOREM OneJobAtATime == Spec => [](crashes = 0 => OneHand /\ HandFits)
<1>1. PipelineInv => (crashes = 0 => OneHand /\ HandFits)
  BY DEF PipelineInv, CrashFree
<1>2. QED
  BY InitPipelineInv, NextPipelineInv, <1>1, PTL DEF Spec

\* As long as the api has not crashed, what is under review has a preview of
\* its own generation, made from the edit and not from the raw upload
\* (requireProcessingSource, upsertOutput).
THEOREM ReviewersSeeTheEdit == Spec => [](crashes = 0 => ReviewSeesTheEdit)
<1>1. PipelineInv => (crashes = 0 => ReviewSeesTheEdit)
  BY DEF PipelineInv, CrashFree, EditsAreStored
<1>2. QED
  BY InitPipelineInv, NextPipelineInv, <1>1, PTL DEF Spec

\* As long as the api has not crashed, a content in a working stage has a job
\* of that stage that runs, an outcome of it under way, or somebody about to
\* add one: no content is left behind (the handlers of PipelineService).
THEOREM StagesAreBacked == Spec => [](crashes = 0 => WorkIsBacked)
<1>1. PipelineInv => (crashes = 0 => WorkIsBacked)
  <2> SUFFICES ASSUME PipelineInv, crashes = 0, status \in WorkingStages
               PROVE  \/ \E k \in JobsOf(status) :
                           Running(k) \/ \E e \in events : e.key = k /\ e.name = job[k].state
                      \/ \E t \in tasks : t.do # "resolve"
    BY DEF WorkIsBacked
  <2>1. WorkIsHeld /\ HandFits
    BY DEF PipelineInv, CrashFree
  <2>2. CASE \E t \in tasks : HeldByTask(t)
    BY <2>2 DEF HeldByTask
  <2>3. ASSUME NEW k \in JobKey, HeldByJob(k)
        PROVE  \E l \in JobsOf(status) :
                 Running(l) \/ \E e \in events : e.key = l /\ e.name = job[l].state
    <3>1. Fits(k) /\ k[1] \in {"transcode", "analysis", "auto_edit", "preview"}
      BY <2>1, <2>3, Keys DEF HandFits
    <3>2. k[1] \in StageJobs[status] /\ k[2] = generation
      BY <3>1 DEF Fits, StageJobs, WorkingStages
    <3>3. k \in JobsOf(status)
      BY <3>2 DEF JobsOf
    <3>4. Running(k) \/ \E e \in events : e.key = k /\ e.name = job[k].state
      BY <2>3 DEF HeldByJob
    <3>5. QED
      BY <3>3, <3>4
  <2>4. QED
    BY <2>1, <2>2, <2>3 DEF WorkIsHeld
<1>2. QED
  BY InitPipelineInv, NextPipelineInv, <1>1, PTL DEF Spec

\* As long as the api has not crashed, a stage reported as failed has no job
\* that still waits or runs, so a retry starts the only one (isExhausted,
\* retry).
THEOREM FailedStagesRest == Spec => [](crashes = 0 => FailedMeansStopped)
<1>1. PipelineInv => (crashes = 0 => FailedMeansStopped)
  <2> SUFFICES ASSUME PipelineInv, crashes = 0, status \in FailedStages,
                      NEW k \in JobsOf(status)
               PROVE  ~ Running(k)
    BY DEF FailedMeansStopped
  <2>1. k \in JobKey
    BY DEF JobsOf
  <2>2. ~ HeldByJob(k)
    BY <2>1, UsersFindNoHand DEF PipelineInv, CrashFree, FailedStages, WorkingStages
  <2>3. QED
    BY <2>2 DEF HeldByJob
<1>2. QED
  BY InitPipelineInv, NextPipelineInv, <1>1, PTL DEF Spec

\* As long as the api has not crashed, a regeneration that is under review has
\* no open request, unless somebody is about to close it
\* (resolveRevisionRequests).
THEOREM ReviewsCloseRevisions == Spec => [](crashes = 0 => RevisionsAreClosed)
<1>1. PipelineInv => (crashes = 0 => RevisionsAreClosed)
  BY DEF PipelineInv, CrashFree, OpenIsExpected, RevisionsAreClosed, ReviewStatus
<1>2. QED
  BY InitPipelineInv, NextPipelineInv, <1>1, PTL DEF Spec

===============================================================================
