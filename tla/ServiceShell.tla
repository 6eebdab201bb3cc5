----------------------------- MODULE ServiceShell -----------------------------
(***************************************************************************)
(* The process: src/index.ts starts the workers, and on a signal stops them    *)
(* in an order and within a budget (close of src/jobs/*-queue.ts,              *)
(* src/redis.ts, src/db/client.ts).  A job is any work between a worker's       *)
(* taking it and its end.  What may hang here hangs: a request, a job, a forced *)
(* close, a goodbye to Redis.  That the feed is closed first, and what a        *)
(* refresh in flight does to that, is in CoherenceWatcher.                      *)
(***************************************************************************)
EXTENDS Integers

CONSTANTS
  ShutdownTimeout,  \* SHUTDOWN_TIMEOUT_MS, in ticks
  DrainTimeout      \* JOB_DRAIN_TIMEOUT_MS, in ticks

VARIABLES
  stage,    \* starting, serving, closing (HTTP), draining, releasing, exited, aborted
  workers,  \* queues with a worker
  work,     \* queues with a job in flight
  drain,    \* queue |-> none, waiting, forcing, closing, closed, rejected
  elapsed,  \* since the signal
  drained   \* since the drains began

Queue == {"catalog", "coherence"}

vars == <<stage, workers, work, drain, elapsed, drained>>

Init ==
  /\ stage = "starting" /\ workers = {} /\ work = {}
  /\ drain = [q \in Queue |-> "none"]
  /\ elapsed = 0 /\ drained = 0

Ended == stage \in {"exited", "aborted"}
Alive == ~Ended
Stopping == stage \in {"closing", "draining", "releasing"}
Exit == stage' = "exited" /\ UNCHANGED <<workers, work, drain, elapsed, drained>>

-----------------------------------------------------------------------------
(* Starting, and work *)

\* startCatalogJobs, startCoherenceJobs: whichever is configured, in this order.
StartWorker(q) ==
  /\ stage = "starting" /\ q \notin workers /\ "coherence" \notin workers
  /\ workers' = workers \cup {q}
  /\ UNCHANGED <<stage, work, drain, elapsed, drained>>

\* The handlers of signals are installed last.
Serve ==
  /\ stage = "starting" /\ stage' = "serving"
  /\ UNCHANGED <<workers, work, drain, elapsed, drained>>

\* A start that fails, or a signal before it is over, ends the process where it is.
FailToStart == stage = "starting" /\ Exit

\* A worker takes jobs until it is closed: also while requests are waited for.
TakeJob(q) ==
  /\ Alive /\ q \in workers \ work /\ drain[q] = "none"
  /\ work' = work \cup {q}
  /\ UNCHANGED <<stage, workers, drain, elapsed, drained>>

FinishJob(q) ==
  /\ Alive /\ q \in work
  /\ work' = work \ {q}
  /\ UNCHANGED <<stage, workers, drain, elapsed, drained>>

-----------------------------------------------------------------------------
(* shutdown *)

\* A signal, an exception nobody caught, a rejection nobody handled; a second one
\* changes nothing.  The timer that ends the process is set before anything is closed.
Signal ==
  /\ stage = "serving" /\ stage' = "closing"
  /\ UNCHANGED <<workers, work, drain, elapsed, drained>>

Budget == ShutdownTimeout + IF workers = {} THEN 0 ELSE DrainTimeout

\* Variant: the timer is set when the drains begin.
TimeOutDrains == stage \in {"draining", "releasing"} /\ elapsed >= Budget /\ Exit

TimeOut == Stopping /\ elapsed >= Budget /\ Exit

\* The last request is answered: the workers are told to stop.
HttpCloses ==
  /\ stage = "closing"
  /\ stage' = IF workers = {} THEN "releasing" ELSE "draining"
  /\ drain' = [q \in Queue |-> IF q \in workers THEN "waiting" ELSE drain[q]]
  /\ UNCHANGED <<workers, work, elapsed, drained>>

\* The feed or the server fails to close: the catch around it all ends the process at
\* once, with nothing drained, under whatever jobs are in flight.
HttpFails ==
  /\ stage = "closing" /\ stage' = "aborted"
  /\ UNCHANGED <<workers, work, drain, elapsed, drained>>

Move(q, from, to) ==
  /\ stage = "draining" /\ drain[q] = from
  /\ drain' = [drain EXCEPT ![q] = to]
  /\ UNCHANGED <<stage, workers, work, elapsed, drained>>

\* The race between worker.close(), which waits for the job, and the deadline.
Drained(q) == q \notin work /\ Move(q, "waiting", "closing")
DrainDeadline(q) == drained >= DrainTimeout /\ Move(q, "waiting", "forcing")

\* worker.close(true); then the queues.
Forced(q) == Move(q, "forcing", "closing")
Closed(q) == Move(q, "closing", "closed")

\* A worker may fail to close, and so may the queues: those of the catalog settle.
CloseFails(q) ==
  \/ Move(q, "waiting", "rejected") \/ Move(q, "forcing", "rejected")
  \/ q = "coherence" /\ Move(q, "closing", "rejected")

\* Variant: the first drain that fails ends the shutdown.
DrainsOver ==
  /\ stage = "draining"
  /\ \/ \A q \in workers : drain[q] = "closed" /\ stage' = "releasing"
     \/ \E q \in workers : drain[q] = "rejected" /\ stage' = "exited"
  /\ UNCHANGED <<workers, work, drain, elapsed, drained>>

\* All settled: Postgres and Redis are let go of, under whatever still runs.
DrainsSettled ==
  /\ stage = "draining"
  /\ \A q \in workers : drain[q] \in {"closed", "rejected"}
  /\ stage' = "releasing"
  /\ UNCHANGED <<workers, work, drain, elapsed, drained>>

Released == stage = "releasing" /\ Exit

\* A timer that is due goes first.
Tick ==
  /\ Stopping /\ elapsed < Budget
  /\ \A q \in Queue : drain[q] = "waiting" => drained < DrainTimeout
  /\ elapsed' = elapsed + 1
  /\ drained' = IF stage = "draining" THEN drained + 1 ELSE drained
  /\ UNCHANGED <<stage, workers, work, drain>>

-----------------------------------------------------------------------------
Next ==
  \/ Serve \/ FailToStart \/ Signal \/ TimeOut \/ HttpCloses \/ HttpFails
  \/ DrainsSettled \/ Released \/ Tick
  \/ \E q \in Queue :
       \/ StartWorker(q) \/ TakeJob(q) \/ FinishJob(q)
       \/ Drained(q) \/ DrainDeadline(q) \/ Forced(q) \/ Closed(q) \/ CloseFails(q)

\* Only timers can be counted on.
Fairness == WF_vars(Tick) /\ WF_vars(TimeOut) /\ \A q \in Queue : WF_vars(DrainDeadline(q))

Spec == Init /\ [][Next]_vars /\ Fairness

-----------------------------------------------------------------------------
(* Properties *)

\* "Settled, not all: a coherence worker that will not drain must not stop the catalog
\* worker from finishing its transaction": the process lets go of the connections a job
\* works with, or of the job, only if the job's own drain failed or lasted as long as a
\* drain may, or the shutdown as long as a shutdown may -- unless the feed or the server
\* failed to close, which aborts it before any drain, and no job has any grace.
HadItsGrace(q) == drain[q] = "rejected" \/ drained >= DrainTimeout \/ elapsed >= Budget
GraceStep == Stopping /\ stage' \in {"releasing", "exited"} => \A q \in work : HadItsGrace(q)

\* And it ends, whatever hangs.
EndsInTime == Stopping ~> Ended

=============================================================================
