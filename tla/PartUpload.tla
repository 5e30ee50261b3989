----------------------------- MODULE PartUpload -----------------------------
(* A large original goes up in parts: a pool of workers takes the parts in  *)
(* turn, the first failure or the user's cancellation stops them all, and   *)
(* the object is put together from the tags of every part.                  *)
EXTENDS Naturals

CONSTANTS
  Parts,        \* the number of parts the server planned
  PartSize,     \* units of progress of a part
  Concurrency   \* parts under way at a time

VARIABLES
  part,      \* each part: "waiting", "sending", "tagged"
  loaded,    \* bytes of each part the progress counts
  cursor,    \* next part to take
  worker,    \* the part each worker sends, 0 while it looks for one, or "done"
  stopped,   \* the pool's own abort signal
  signalled, \* the user's abort signal
  firstError,
  outcome    \* of the upload: "running", then what it promised its caller

partVars == <<part, loaded, cursor, worker, stopped, signalled, firstError, outcome>>

Part == 1..Parts
Worker == 1..Concurrency

PartInit ==
  /\ part = [p \in Part |-> "waiting"] /\ loaded = [p \in Part |-> 0]
  /\ cursor = 1 /\ worker = [w \in Worker |-> 0]
  /\ stopped = FALSE /\ signalled = FALSE /\ firstError = "none" /\ outcome = "running"

\* The total that is shown: parts never count back, whatever the transport reports.
Counted(p, n) == IF n > loaded[p] THEN n ELSE loaded[p]
Shown ==
  LET total[n \in 0 .. Parts] == IF n = 0 THEN 0 ELSE total[n - 1] + loaded[n]
  IN total[Parts]

\* A worker takes the next part, or ends.
Take(w) ==
  /\ worker[w] = 0
  /\ IF stopped \/ cursor > Parts
     THEN /\ worker' = [worker EXCEPT ![w] = Parts + 1]
          /\ UNCHANGED <<part, cursor>>
     ELSE /\ worker' = [worker EXCEPT ![w] = cursor]
          /\ part' = [part EXCEPT ![cursor] = "sending"]
          /\ cursor' = cursor + 1
  /\ UNCHANGED <<loaded, stopped, signalled, firstError, outcome>>

Sending(w) == worker[w] \in Part

\* The transport reports any count, also a smaller one after it sent something again.
Progresses(w) ==
  /\ Sending(w)
  /\ \E n \in 0..PartSize : loaded' = [loaded EXCEPT ![worker[w]] = Counted(worker[w], n)]
  /\ UNCHANGED <<part, cursor, worker, stopped, signalled, firstError, outcome>>

\* The part is stored and its tag known.
PartTagged(w) ==
  /\ Sending(w)
  /\ part' = [part EXCEPT ![worker[w]] = "tagged"]
  /\ loaded' = [loaded EXCEPT ![worker[w]] = PartSize]
  /\ worker' = [worker EXCEPT ![w] = 0]
  /\ UNCHANGED <<cursor, stopped, signalled, firstError, outcome>>

\* It failed: a refusal, a lost connection, a missing tag, or the abort signal.  The
\* first failure stops the other workers.
Reason(w) == IF stopped THEN "aborted" ELSE "transport"

PartFails(w) ==
  /\ Sending(w)
  /\ firstError' = IF firstError = "none" THEN Reason(w) ELSE firstError
  /\ stopped' = TRUE
  /\ part' = [part EXCEPT ![worker[w]] = "waiting"]
  /\ worker' = [worker EXCEPT ![w] = Parts + 1]
  /\ UNCHANGED <<loaded, cursor, signalled, outcome>>

\* The user cancels; an XHR under way hears of it by its own event.
Abort ==
  /\ outcome = "running" /\ ~signalled
  /\ signalled' = TRUE /\ stopped' = TRUE
  /\ UNCHANGED <<part, loaded, cursor, worker, firstError, outcome>>

\* The faulty version for the mutant checks: the first error ends the pool, whatever the other workers do.
PoolEnds_AtFirstError ==
  /\ outcome = "running"
  /\ firstError # "none" \/ \A w \in Worker : worker[w] = Parts + 1
  /\ outcome' = IF firstError # "none" \/ signalled THEN "failed" ELSE "complete"
  /\ UNCHANGED <<part, loaded, cursor, worker, stopped, signalled, firstError>>

\* All workers have ended: an error first, then the abort, else the tags of all parts.
PoolEnds ==
  /\ outcome = "running" /\ \A w \in Worker : worker[w] = Parts + 1
  /\ outcome' = IF firstError # "none" \/ signalled THEN "failed" ELSE "complete"
  /\ UNCHANGED <<part, loaded, cursor, worker, stopped, signalled, firstError>>

Pool == \E w \in Worker : Take(w) \/ Progresses(w) \/ PartTagged(w) \/ PartFails(w)

PartNext == Pool \/ Abort \/ PoolEnds

------------------------------------------------------------------------------
PartTypeOK ==
  /\ part \in [Part -> {"waiting", "sending", "tagged"}]
  /\ loaded \in [Part -> 0..PartSize] /\ cursor \in 1..Parts + 1
  /\ worker \in [Worker -> 0..Parts + 1]
  /\ firstError \in {"none", "aborted", "transport"}
  /\ outcome \in {"running", "complete", "failed"}

\* The completion is asked for with the tag of every part, in whatever order the
\* workers ended and failed.
CompleteIsWhole == outcome = "complete" => \A p \in Part : part[p] = "tagged"

\* An upload that was given up has no part under way any more: the abort that is
\* sent to the server next cannot be overtaken by one.
GivenUpIsQuiet == outcome = "failed" => \A p \in Part : part[p] # "sending"

\* The progress shown never falls back.
ProgressNeverFalls == [][Shown' >= Shown]_partVars
=============================================================================
