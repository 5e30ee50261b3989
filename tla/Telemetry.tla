----------------------------- MODULE Telemetry -----------------------------
(* Usage events of an app, batched and sent with retries, and the counts    *)
(* the api keeps of what reaches it.                                        *)
EXTENDS Naturals, Sequences, FiniteSets

CONSTANTS
  Key,              \* contents or sessions an event may be about
  MaxEvents,        \* bound: events of the app
  FlushBatchSize, MaxBatchSize, MaxQueuedEvents, MaxSendAttempts,
  MaxRollupKeys,    \* keys the rollup tells apart
  BucketCapacity,   \* requests the api takes at once from one address
  MaxRefills        \* bound: refills of that allowance

VARIABLES
  emitted,    \* events handed to the queue so far
  queue, retry, sending,
  timer, backoff, disposed,
  counters,   \* the queue's own statistics
  rollup,     \* the api's counts
  arrived,    \* where an event first stood among all that the api took; 0: it has not
  bucket, refills

telemetryVars ==
  <<emitted, queue, retry, sending, timer, backoff, disposed, counters, rollup, arrived,
    bucket, refills>>

Kind == {"playback", "complete", "unknown"}
NoBatch == [events |-> <<>>, attempt |-> 0]

TelemetryInit ==
  /\ emitted = 0 /\ queue = <<>> /\ retry = NoBatch /\ sending = NoBatch
  /\ timer = FALSE /\ backoff = FALSE /\ disposed = FALSE
  /\ counters = [sent |-> 0, overflown |-> 0, unsent |-> 0]
  /\ rollup = [total |-> 0, unknown |-> 0, playback |-> 0, complete |-> 0,
               views |-> [k \in Key |-> 0], viewsDropped |-> 0,
               sessions |-> {}, sessionsDropped |-> 0]
  /\ arrived = [n \in 1 .. MaxEvents |-> 0] /\ bucket = BucketCapacity /\ refills = 0

------------------------------------------------------------------------------

\* The oldest make room for the newest.
AdmitEvent(q, e) ==
  LET over == IF Len(q) + 1 > MaxQueuedEvents THEN Len(q) + 1 - MaxQueuedEvents ELSE 0
  IN [queue |-> SubSeq(Append(q, e), over + 1, Len(q) + 1), dropped |-> over]

TakeBatch(q, size) ==
  LET n == IF Len(q) < size THEN Len(q) ELSE size
  IN [batch |-> SubSeq(q, 1, n), rest |-> SubSeq(q, n + 1, Len(q))]

\* scheduleNext, over the state the step reaches.
ScheduleNext(q, again, busy) == timer \/ (~busy /\ (again.attempt > 0 \/ Len(q) > 0))

\* The faulty version for the mutant checks: what is tried again goes behind what waits.
NextBatch_RetryLast(q, force) ==
  LET t == TakeBatch(q, IF force THEN MaxBatchSize ELSE FlushBatchSize)
      all == t.batch \o retry.events
  IN [batch |-> IF all = <<>> THEN NoBatch
                ELSE [events |-> all, attempt |-> IF retry.attempt > 0 THEN retry.attempt ELSE 1],
      rest |-> t.rest]

\* flushInternal: the batch to be tried again goes before the queue.
NextBatch(q, force) ==
  IF retry.attempt > 0 THEN [batch |-> retry, rest |-> q]
  ELSE LET t == TakeBatch(q, IF force THEN MaxBatchSize ELSE FlushBatchSize)
       IN [batch |-> IF t.batch = <<>> THEN NoBatch ELSE [events |-> t.batch, attempt |-> 1],
           rest |-> t.rest]

Flush(q, force, armed) ==
  IF disposed \/ sending.attempt > 0
  THEN /\ queue' = q /\ timer' = armed
       /\ UNCHANGED <<retry, sending>>
  ELSE IF ~force /\ backoff
  THEN /\ queue' = q /\ timer' = (armed \/ retry.attempt > 0 \/ Len(q) > 0)
       /\ UNCHANGED <<retry, sending>>
  ELSE LET next == NextBatch(q, force) IN
       /\ queue' = next.rest /\ retry' = NoBatch /\ sending' = next.batch
       /\ timer' = (armed /\ next.batch.attempt = 0)

\* enqueue; an upload's end is flushed at once.
Emit(kind, key) ==
  /\ emitted < MaxEvents /\ ~disposed
  /\ emitted' = emitted + 1
  /\ LET a == AdmitEvent(queue, [n |-> emitted + 1, kind |-> kind, key |-> key]) IN
     /\ counters' = [counters EXCEPT !.overflown = @ + a.dropped]
     /\ IF kind = "complete" THEN Flush(a.queue, TRUE, timer)
        ELSE IF Len(a.queue) >= FlushBatchSize THEN Flush(a.queue, FALSE, timer)
        ELSE /\ queue' = a.queue
             /\ timer' = ScheduleNext(a.queue, retry, sending.attempt > 0)
             /\ UNCHANGED <<retry, sending>>
  /\ UNCHANGED <<backoff, disposed, rollup, arrived, bucket, refills>>

TimerFires ==
  /\ timer /\ Flush(queue, FALSE, FALSE)
  /\ UNCHANGED <<emitted, backoff, disposed, counters, rollup, arrived, bucket, refills>>

\* The app goes to the background.
Background ==
  /\ Flush(queue, TRUE, timer)
  /\ UNCHANGED <<emitted, backoff, disposed, counters, rollup, arrived, bucket, refills>>

BackoffEnds ==
  /\ backoff /\ backoff' = FALSE
  /\ UNCHANGED <<emitted, queue, retry, sending, timer, disposed, counters, rollup, arrived,
                 bucket, refills>>

Dispose ==
  /\ disposed' = TRUE /\ timer' = FALSE /\ queue' = <<>> /\ retry' = NoBatch
  /\ UNCHANGED <<emitted, sending, backoff, counters, rollup, arrived, bucket, refills>>

------------------------------------------------------------------------------

\* record: a count per kind, and one per content or session while there is room.
RecordView(r, k) ==
  IF r.views[k] > 0 \/ Cardinality({j \in Key : r.views[j] > 0}) < MaxRollupKeys
  THEN [r EXCEPT !.views[k] = @ + 1]
  ELSE [r EXCEPT !.viewsDropped = @ + 1]

RecordSession(r, k) ==
  IF k \in r.sessions \/ Cardinality(r.sessions) < MaxRollupKeys
  THEN [r EXCEPT !.sessions = @ \union {k}]
  ELSE [r EXCEPT !.sessionsDropped = @ + 1]

Record(r, e) ==
  LET counted == [r EXCEPT !.total = @ + 1] IN
  CASE e.kind = "playback" -> RecordView([counted EXCEPT !.playback = @ + 1], e.key)
    [] e.kind = "complete" -> RecordSession([counted EXCEPT !.complete = @ + 1], e.key)
    [] OTHER -> [counted EXCEPT !.unknown = @ + 1]

Ingest(events) ==
  LET after[i \in 0 .. Len(events)] ==
        IF i = 0 THEN rollup ELSE Record(after[i - 1], events[i])
  IN after[Len(events)]

\* The api takes the batch, unless the address has used up its allowance, and the
\* app learns of it, or not.
Received ==
  /\ bucket > 0
  /\ bucket' = bucket - 1
  /\ rollup' = Ingest(sending.events)
  /\ arrived' =
       [n \in 1 .. MaxEvents |->
          IF arrived[n] = 0 /\ \E i \in DOMAIN sending.events : sending.events[i].n = n
          THEN rollup.total + CHOOSE i \in DOMAIN sending.events : sending.events[i].n = n
          ELSE arrived[n]]

Succeed ==
  /\ counters' = [counters EXCEPT !.sent = @ + Len(sending.events)]
  /\ backoff' = FALSE
  /\ timer' = (~disposed /\ ScheduleNext(queue, retry, FALSE))
  /\ UNCHANGED retry

\* onSendFailure: kept for another attempt, or given up.
Fail ==
  /\ IF sending.attempt < MaxSendAttempts
     THEN /\ retry' = [sending EXCEPT !.attempt = @ + 1]
          /\ UNCHANGED counters
     ELSE /\ counters' = [counters EXCEPT !.unsent = @ + Len(sending.events)]
          /\ UNCHANGED retry
  /\ backoff' = TRUE
  /\ timer' = (~disposed /\ ScheduleNext(queue, retry', FALSE))

SendEnds ==
  /\ sending.attempt > 0
  /\ sending' = NoBatch
  /\ \/ Received /\ (Succeed \/ Fail)
     \/ Fail /\ UNCHANGED <<rollup, arrived, bucket>>
  /\ UNCHANGED <<emitted, queue, disposed, refills>>

Refill ==
  /\ bucket < BucketCapacity /\ refills < MaxRefills
  /\ bucket' = bucket + 1 /\ refills' = refills + 1
  /\ UNCHANGED <<emitted, queue, retry, sending, timer, backoff, disposed, counters, rollup,
                 arrived>>

\* An app has one session; its unknown events are of none in particular.
Use ==
  LET session == CHOOSE k \in Key : TRUE IN
  (\E key \in Key : Emit("playback", key)) \/ Emit("complete", session) \/ Emit("unknown", session)

TelemetryNext ==
  Use \/ TimerFires \/ Background \/ BackoffEnds \/ Dispose \/ SendEnds \/ Refill

------------------------------------------------------------------------------
TelemetryTypeOK ==
  /\ emitted \in 0..MaxEvents /\ Len(queue) <= MaxQueuedEvents
  /\ {retry.attempt, sending.attempt} \subseteq 0..MaxSendAttempts
  /\ {timer, backoff, disposed} \subseteq BOOLEAN
  /\ Cardinality(rollup.sessions) <= MaxRollupKeys
  /\ bucket \in 0..BucketCapacity

\* What waits is sent some day: an event in the queue or a batch to be tried again
\* always has a timer or a send under way, through backoff, refusals and flushes.
WaitingIsScheduled ==
  ~disposed /\ (queue # <<>> \/ retry.attempt > 0) => timer \/ sending.attempt > 0

\* Every event is somewhere: waiting, under way, sent, or counted as dropped.
EventsAddUp ==
  ~disposed =>
    emitted = Len(queue) + Len(retry.events) + Len(sending.events)
                + counters.sent + counters.overflown + counters.unsent

\* Retries and overflow reorder nothing: events first arrive in the order of their use.
ArrivedInOrder ==
  \A m, n \in 1 .. MaxEvents : m < n /\ 0 \notin {arrived[m], arrived[n]} => arrived[m] < arrived[n]

\* The per-content counts and what was dropped for want of room make up the playbacks.
ViewsAddUp ==
  Cardinality(UNION {{k} \X (1 .. rollup.views[k]) : k \in Key}) + rollup.viewsDropped
    = rollup.playback
=============================================================================
