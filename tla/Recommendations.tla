-------------------------- MODULE Recommendations --------------------------
(* One week's recommendation: an operator has it generated, revised and     *)
(* approved; a queued job ranks the contents, and every api process that    *)
(* hears of the job's end applies its outcome in several steps.             *)
EXTENDS Naturals, FiniteSets

CONSTANTS
  Handler,        \* event handlers that may run at a time, over all processes
  MaxGeneration,  \* bound: generations of the week
  MaxAttempts,    \* bound: times a generation is dispatched
  MaxApiCrashes   \* bound: crashes of the api

VARIABLES
  queued,     \* whether the process has a queue; without one it ranks inline
  week,       \* the row: status, generation and the generation and note of its items
  requests,   \* revision requests: the generation each asked for, resolved or not
  dispatching,\* generations committed and not yet put on the queue, with their note
  job,        \* the job of each generation
  attempts,   \* dispatches committed so far
  runs,       \* rankings computed so far
  ended,      \* processes that have still to hear of the end of a generation's job
  handler,    \* what each handler holds
  outlived,   \* history: a handler outlived the attempt it read, or two runs raced
  lost,       \* history: a crash or a failed removal lost a dispatch
  apiCrashes

recommendationVars ==
  <<queued, week, requests, dispatching, job, attempts, runs, ended, handler, outlived,
    lost, apiCrashes>>

Generation == 1..MaxGeneration
Idle == [at |-> "idle"]
Nothing == [gen |-> 0, run |-> 0, note |-> 0]
InProgress == {"generating", "regenerating"}

RecommendationInit ==
  /\ queued \in BOOLEAN
  /\ week = [status |-> "none", generation |-> 0, items |-> Nothing]
  /\ requests = {} /\ dispatching = {}
  /\ job = [g \in Generation |-> [state |-> "none"]]
  /\ attempts = 0 /\ runs = 0 /\ ended = [g \in Generation |-> 0]
  /\ handler = [h \in Handler |-> Idle]
  /\ outlived = FALSE /\ lost = FALSE /\ apiCrashes = 0

------------------------------------------------------------------------------
\* A handler still to write, or still to resolve, when the row moves on under it.
HandlerInFlight == \E h \in Handler : handler[h].at # "idle"

\* The faulty version for the mutant checks: a retry starts without the request it was for.
PendingRevision_Forgotten == 0

\* The latest revision request that is not resolved, 0 when there is none.
PendingRevision ==
  LET open == {r.gen : r \in {q \in requests : ~q.resolved}}
  IN IF open = {} THEN 0 ELSE CHOOSE g \in open : \A o \in open : o <= g

\* week_of is unique: a second creation is refused.
CreateGenerating ==
  /\ week.status = "none"
  /\ attempts < MaxAttempts /\ attempts' = attempts + 1
  /\ week' = [week EXCEPT !.status = "generating", !.generation = 1]
  /\ dispatching' = dispatching \union {[gen |-> 1, note |-> 0]}
  /\ UNCHANGED <<queued, requests, job, runs, ended, handler, outlived, lost, apiCrashes>>

\* generate on a failed week: the same generation again, with the open request's note.
RetryGeneration ==
  /\ week.status = "generation_failed"
  /\ attempts < MaxAttempts /\ attempts' = attempts + 1
  /\ week' = [week EXCEPT !.status = "generating"]
  /\ dispatching' = dispatching \union {[gen |-> week.generation, note |-> PendingRevision]}
  /\ outlived' = (outlived \/ HandlerInFlight)
  /\ UNCHANGED <<queued, requests, job, runs, ended, handler, lost, apiCrashes>>

\* generate on a week in progress for too long: failed first, then retried.
RecoverStuck ==
  /\ week.status \in InProgress
  /\ week' = [week EXCEPT !.status = "generation_failed"]
  /\ UNCHANGED <<queued, attempts, requests, dispatching, job, runs, ended, handler, outlived, lost, apiCrashes>>

Approve ==
  /\ week.status = "pending_review"
  /\ week' = [week EXCEPT !.status = "approved"]
  /\ UNCHANGED <<queued, attempts, requests, dispatching, job, runs, ended, handler, outlived, lost, apiCrashes>>

\* Two hops and the request in one transaction: revision_requested is never seen.
RequestRevision ==
  /\ week.status = "pending_review" /\ week.generation < MaxGeneration
  /\ attempts < MaxAttempts /\ attempts' = attempts + 1
  /\ week' = [week EXCEPT !.status = "regenerating", !.generation = @ + 1]
  /\ requests' = requests \union {[gen |-> week.generation + 1, resolved |-> FALSE]}
  /\ dispatching' =
       dispatching \union {[gen |-> week.generation + 1, note |-> week.generation + 1]}
  /\ outlived' = (outlived \/ HandlerInFlight)
  /\ UNCHANGED <<queued, job, runs, ended, handler, lost, apiCrashes>>

------------------------------------------------------------------------------

\* Enqueue after the commit.  The old job of the generation is removed first; an
\* active one stays and the new one is then no job at all.
Enqueue ==
  \E d \in dispatching :
    /\ queued
    /\ dispatching' = dispatching \ {d}
    /\ job' = IF job[d.gen].state = "active" THEN job
              ELSE [job EXCEPT ![d.gen] = [state |-> "waiting", note |-> d.note]]
    /\ UNCHANGED <<queued, attempts, week, requests, runs, ended, handler, outlived, lost, apiCrashes>>

\* The removal fails and is not noticed: an old job that ended keeps the new one out.
EnqueueOverLeftover ==
  \E d \in dispatching :
    /\ queued /\ job[d.gen].state \in {"completed", "failed"}
    /\ dispatching' = dispatching \ {d}
    /\ lost' = TRUE
    /\ UNCHANGED <<queued, attempts, week, requests, job, runs, ended, handler, outlived, apiCrashes>>

\* The queue cannot be reached: dispatch fails the generation itself.
EnqueueFails ==
  \E d \in dispatching, h \in Handler :
    /\ queued /\ handler[h] = Idle
    /\ dispatching' = dispatching \ {d}
    /\ handler' = [handler EXCEPT ![h] = [at |-> "failing", gen |-> d.gen]]
    /\ UNCHANGED <<queued, attempts, week, requests, job, runs, ended, outlived, lost, apiCrashes>>

\* Without a queue dispatch computes the ranking and applies it itself.
ComputeInline ==
  \E d \in dispatching, h \in Handler, empty \in BOOLEAN :
    /\ ~queued /\ handler[h] = Idle
    /\ dispatching' = dispatching \ {d}
    /\ runs' = runs + 1
    /\ handler' = [handler EXCEPT ![h] =
         [at |-> "completed", gen |-> d.gen, empty |-> empty,
          items |-> [gen |-> d.gen, run |-> runs + 1, note |-> d.note]]]
    /\ UNCHANGED <<queued, attempts, week, requests, job, ended, outlived, lost, apiCrashes>>

WorkerTakes(g) ==
  /\ job[g].state = "waiting"
  /\ job' = [job EXCEPT ![g].state = "active"]
  /\ UNCHANGED <<queued, attempts, week, requests, dispatching, runs, ended, handler, outlived, lost, apiCrashes>>

\* The ranking ends, with candidates or without.
WorkerCompletes(g) ==
  /\ job[g].state = "active"
  /\ runs' = runs + 1
  /\ \E empty \in BOOLEAN :
       job' = [job EXCEPT ![g] =
                 [state |-> "completed", empty |-> empty,
                  items |-> [gen |-> g, run |-> runs + 1, note |-> job[g].note]]]
  /\ ended' = [ended EXCEPT ![g] = Cardinality(Handler)]
  /\ UNCHANGED <<queued, attempts, week, requests, dispatching, handler, outlived, lost, apiCrashes>>

\* The job's last attempt fails.
WorkerFails(g) ==
  /\ job[g].state = "active"
  /\ job' = [job EXCEPT ![g] = [state |-> "failed"]]
  /\ ended' = [ended EXCEPT ![g] = Cardinality(Handler)]
  /\ UNCHANGED <<queued, attempts, week, requests, dispatching, runs, handler, outlived, lost, apiCrashes>>

------------------------------------------------------------------------------
\* One of the processes hears of a job's end and reads the job: one that was put
\* back on the queue meanwhile has no result.
Hear(h, g) ==
  /\ handler[h] = Idle /\ ended[g] > 0
  /\ ended' = [ended EXCEPT ![g] = @ - 1]
  /\ handler' = [handler EXCEPT ![h] =
       CASE job[g].state = "completed" ->
              [at |-> "completed", gen |-> g, empty |-> job[g].empty, items |-> job[g].items]
         [] job[g].state = "failed" -> [at |-> "failing", gen |-> g]
         [] OTHER -> Idle]
  /\ UNCHANGED <<queued, attempts, week, requests, dispatching, job, runs, outlived, lost, apiCrashes>>

\* applyGenerationResult reads the row: only one in progress at this generation goes on.
Applies(h) == week.status \in InProgress /\ week.generation = handler[h].gen

\* Another handler is about to write, or has written, the items of another run.
RunsRace(h) ==
  \E o \in Handler :
    handler[o].at \in {"store", "review"} /\ handler[o].items.run # handler[h].items.run

ReadForResult(h) ==
  /\ handler[h].at = "completed"
  /\ outlived' = (outlived \/ RunsRace(h))
  /\ handler' = [handler EXCEPT ![h] =
       CASE ~Applies(h) -> Idle
         [] handler[h].empty -> [at |-> "fail", from |-> week.status]
         [] OTHER -> [at |-> "store", from |-> week.status, gen |-> handler[h].gen,
                      items |-> handler[h].items]]
  /\ UNCHANGED <<queued, attempts, week, requests, dispatching, job, runs, ended, lost, apiCrashes>>

\* The items are written before the hop, where the generation is still this one.
CanStore(h) == week.generation = handler[h].gen

StoreItems(h) ==
  /\ handler[h].at = "store"
  /\ IF CanStore(h)
     THEN /\ week' = [week EXCEPT !.items = handler[h].items]
          /\ handler' = [handler EXCEPT ![h].at = "review"]
     ELSE /\ handler' = [handler EXCEPT ![h] = Idle] /\ UNCHANGED week
  /\ UNCHANGED <<queued, attempts, requests, dispatching, job, runs, ended, outlived, lost, apiCrashes>>

\* applySystemTransition: applied where the status is still the one read.
ReachReview(h) ==
  /\ handler[h].at = "review"
  /\ IF week.status = handler[h].from
     THEN /\ week' = [week EXCEPT !.status = "pending_review"]
          /\ handler' = [handler EXCEPT ![h] = [at |-> "resolve"]]
     ELSE /\ handler' = [handler EXCEPT ![h] = Idle] /\ UNCHANGED week
  /\ UNCHANGED <<queued, attempts, requests, dispatching, job, runs, ended, outlived, lost, apiCrashes>>

\* All open requests of the week are closed.
ResolveRequests(h) ==
  /\ handler[h].at = "resolve"
  /\ requests' = {[r EXCEPT !.resolved = TRUE] : r \in requests}
  /\ handler' = [handler EXCEPT ![h] = Idle]
  /\ UNCHANGED <<queued, attempts, week, dispatching, job, runs, ended, outlived, lost, apiCrashes>>

\* failGeneration reads the status and not the generation.
ReadForFailure(h) ==
  /\ handler[h].at = "failing"
  /\ handler' = [handler EXCEPT ![h] =
       IF week.status \in InProgress THEN [at |-> "fail", from |-> week.status] ELSE Idle]
  /\ UNCHANGED <<queued, attempts, week, requests, dispatching, job, runs, ended, outlived, lost, apiCrashes>>

FailGeneration(h) ==
  /\ handler[h].at = "fail"
  /\ week' = IF week.status = handler[h].from
             THEN [week EXCEPT !.status = "generation_failed"] ELSE week
  /\ handler' = [handler EXCEPT ![h] = Idle]
  /\ UNCHANGED <<queued, attempts, requests, dispatching, job, runs, ended, outlived, lost, apiCrashes>>

\* The processes restart: what was to be enqueued and what the handlers held is
\* gone; the jobs that ended and are still kept are applied once more.
ApiCrash ==
  /\ apiCrashes < MaxApiCrashes
  /\ apiCrashes' = apiCrashes + 1
  /\ lost' = (lost \/ dispatching # {} \/ HandlerInFlight)
  /\ dispatching' = {}
  /\ handler' = [h \in Handler |-> Idle]
  /\ ended' = [g \in Generation |->
                 IF job[g].state \in {"completed", "failed"} THEN 1 ELSE 0]
  /\ UNCHANGED <<queued, attempts, week, requests, job, runs, outlived>>

Operate == CreateGenerating \/ RetryGeneration \/ RecoverStuck \/ Approve \/ RequestRevision
Dispatch == Enqueue \/ EnqueueOverLeftover \/ EnqueueFails \/ ComputeInline
Rank == \E g \in Generation : WorkerTakes(g) \/ WorkerCompletes(g) \/ WorkerFails(g)
Listen == \E h \in Handler, g \in Generation : Hear(h, g)
Handle ==
  \E h \in Handler :
    ReadForResult(h) \/ StoreItems(h) \/ ReachReview(h) \/ ResolveRequests(h)
      \/ ReadForFailure(h) \/ FailGeneration(h)
Progress == Dispatch \/ Rank \/ Listen \/ Handle

RecommendationNext == Operate \/ Progress \/ ApiCrash

------------------------------------------------------------------------------
RecommendationTypeOK ==
  /\ attempts \in 0..MaxAttempts
  /\ week.status \in InProgress \union {"none", "pending_review", "approved", "generation_failed"}
  /\ week.generation \in 0..MaxGeneration
  /\ week.items \in [gen : 0..MaxGeneration, run : 0..MaxAttempts, note : 0..MaxGeneration]
  /\ requests \subseteq [gen : Generation, resolved : BOOLEAN]
  /\ dispatching \subseteq [gen : Generation, note : 0..MaxGeneration]
  /\ \A g \in Generation :
       job[g].state \in {"none", "waiting", "active", "completed", "failed"}
  /\ ended \in [Generation -> 0..Cardinality(Handler)]
  /\ \A h \in Handler :
       handler[h].at \in {"idle", "completed", "failing", "store", "review", "resolve", "fail"}

\* What an operator reviews or has approved is the ranking of the current
\* generation, made with the latest revision's note: neither an older generation's
\* late result nor a retry after a failure or a crash loses it.  Exempt are rows
\* that moved on while a handler of theirs was still at work, and two runs of one
\* generation that are applied at the same time.
ReviewedIsCurrent ==
  week.status \in {"pending_review", "approved"} /\ ~outlived
    => /\ week.items.gen = week.generation
       /\ \A r \in requests : r.gen <= week.items.note

\* A revision request is closed only once the items follow it.
ResolvedIsReflected ==
  outlived \/ \A r \in requests : r.resolved => r.gen <= week.items.gen

\* Late and repeated announcements and needless reruns of the job never touch an
\* approved week.
ApprovedIsFinal ==
  [][week.status = "approved" /\ ~outlived => week' = week]_recommendationVars

\* A generation ends, in review or failed, unless a crash or an unnoticed failure
\* of the queue lost its dispatch; then it waits for an operator.
GenerationEnds == (week.status \in InProgress) ~> (week.status \notin InProgress \/ lost)
=============================================================================
