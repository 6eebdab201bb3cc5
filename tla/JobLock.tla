------------------------------ MODULE JobLock ------------------------------
(***************************************************************************)
(* The Redis lock of src/jobs/lock.ts under which the catalog ingest and    *)
(* the coherence check run: a key with a time to live, taken with SET NX,   *)
(* renewed on a timer while the work runs, deleted on release.              *)
(*                                                                         *)
(* Time is discrete.  A command answers within Latency unless its client is *)
(* cut off from Redis; a client that is cut off queues its commands, and    *)
(* sends again those whose answers it lost, until it is back: src/redis.ts  *)
(* sets maxRetriesPerRequest to null.                                       *)
(***************************************************************************)
EXTENDS Integers, FiniteSets

CONSTANTS
  Process,      \* replicas that may run the job
  Ttl,          \* ttlMs
  RenewEvery,   \* renewEveryMs
  Latency,      \* how long a command may take
  MaxTime,      \* bound: the clock
  MaxRuns,      \* bound: runs of one process
  MaxTroubles   \* bound: failures of the environment

ASSUME LockAssumption ==
  /\ {Ttl, RenewEvery, Latency, MaxTime, MaxRuns, MaxTroubles} \subseteq Nat
  /\ RenewEvery > Latency
  /\ 2 * RenewEvery + 2 * Latency <= Ttl

VARIABLES
  now,        \* the clock
  owner,      \* Redis: the token under the key
  until,      \* Redis: when the key expires
  run,        \* where a process is in withLock
  runs,       \* how many times it called it: its randomUUID
  call,       \* the command it awaits, and the answer on its way
  sentAt,     \* when that command went out
  due,        \* when its renewal timer fires
  renewedAt,  \* lastRenewedAt
  linked,     \* is its connection up?
  cut,        \* history: cut off since the run began
  evicted,    \* history: its key deleted since the run began
  misses,     \* history: failed renewals since the key was last extended
  troubles    \* history: failures so far

vars == <<now, owner, until, run, runs, call, sentAt, due, renewedAt, linked,
          cut, evicted, misses, troubles>>
redisVars == <<owner, until>>
timerVars == <<due, renewedAt>>
callVars  == <<call, sentAt>>
envVars   == <<linked, troubles>>
histVars  == <<cut, evicted, misses>>

NoOne == <<"nobody", 0>>
\* Variant: a token from the run to come.
TokenAhead(p) == <<p, runs[p] + 1>>
Token(p) == <<p, runs[p]>>

\* Redis drops a key once the clock has passed its expiry.
Holder == IF now > until THEN NoOne ELSE owner
Running(p) == run[p] \in {"working", "stopping"}

Init ==
  /\ now = 0
  /\ owner = NoOne /\ until = 0
  /\ run       = [p \in Process |-> "idle"]
  /\ runs      = [p \in Process |-> 0]
  /\ call      = [p \in Process |-> "none"]
  /\ sentAt    = [p \in Process |-> 0]
  /\ due       = [p \in Process |-> 0]
  /\ renewedAt = [p \in Process |-> 0]
  /\ linked    = [p \in Process |-> TRUE]
  /\ cut       = [p \in Process |-> FALSE]
  /\ evicted   = [p \in Process |-> FALSE]
  /\ misses    = [p \in Process |-> 0]
  /\ troubles  = 0

\* A command goes out; its promise settles.
Send(p)    == call' = [call EXCEPT ![p] = "sent"] /\ sentAt' = [sentAt EXCEPT ![p] = now]
Settled(p) == call' = [call EXCEPT ![p] = "none"] /\ sentAt' = [sentAt EXCEPT ![p] = 0]
Answer(p, a) == call' = [call EXCEPT ![p] = a] /\ UNCHANGED sentAt

\* The timer is cleared with the run.
ClearTimer(p) == due' = [due EXCEPT ![p] = 0] /\ renewedAt' = [renewedAt EXCEPT ![p] = 0]

Trouble == troubles < MaxTroubles /\ troubles' = troubles + 1

-----------------------------------------------------------------------------
(* acquireLock *)

Ask(p) ==
  /\ run[p] = "idle" /\ runs[p] < MaxRuns
  /\ run'     = [run EXCEPT ![p] = "asking"]
  /\ runs'    = [runs EXCEPT ![p] = @ + 1]
  /\ cut'     = [cut EXCEPT ![p] = FALSE]
  /\ evicted' = [evicted EXCEPT ![p] = FALSE]
  /\ misses'  = [misses EXCEPT ![p] = 0]
  /\ Send(p)
  /\ UNCHANGED <<now, redisVars, timerVars, envVars>>

\* Variant: the SET is sent without NX.
AcquireAlways(p) ==
  /\ run[p] = "asking" /\ call[p] = "sent" /\ linked[p]
  /\ owner' = Token(p) /\ until' = now + Ttl
  /\ Answer(p, "granted")
  /\ UNCHANGED <<now, run, runs, timerVars, envVars, histVars>>

\* SET key token PX ttl NX.
AcquireExec(p) ==
  /\ run[p] = "asking" /\ call[p] = "sent" /\ linked[p]
  /\ IF Holder = NoOne
       THEN /\ owner' = Token(p) /\ until' = now + Ttl
            /\ Answer(p, "granted")
       ELSE Answer(p, "refused") /\ UNCHANGED redisVars
  /\ UNCHANGED <<now, run, runs, timerVars, envVars, histVars>>

\* The lock is taken: start the timer and the work.
Granted(p) ==
  /\ run[p] = "asking" /\ call[p] = "granted"
  /\ run'       = [run EXCEPT ![p] = "working"]
  /\ due'       = [due EXCEPT ![p] = now + RenewEvery]
  /\ renewedAt' = [renewedAt EXCEPT ![p] = now]
  /\ Settled(p)
  /\ UNCHANGED <<now, redisVars, runs, envVars, histVars>>

Refused(p) ==
  /\ run[p] = "asking" /\ call[p] = "refused"
  /\ run' = [run EXCEPT ![p] = "idle"]
  /\ Settled(p)
  /\ UNCHANGED <<now, redisVars, runs, timerVars, envVars, histVars>>

\* The SET is answered with an error: acquireLock throws.
AskFails(p) ==
  /\ run[p] = "asking" /\ call[p] = "sent" /\ linked[p]
  /\ run' = [run EXCEPT ![p] = "idle"]
  /\ Settled(p) /\ Trouble
  /\ UNCHANGED <<now, redisVars, runs, timerVars, linked, histVars>>

-----------------------------------------------------------------------------
(* renew *)

\* The timer fires.  A renewal sent while another is queued would run back to
\* back with it, so one at a time stands for all of them.
RenewSend(p) ==
  /\ Running(p) /\ now >= due[p]
  /\ due' = [due EXCEPT ![p] = now + RenewEvery]
  /\ IF call[p] = "none" THEN Send(p) ELSE UNCHANGED callVars
  /\ UNCHANGED <<now, redisVars, run, runs, renewedAt, envVars, histVars>>

\* RENEW_SCRIPT: extend only a key that is still ours.
RenewExec(p) ==
  /\ Running(p) /\ call[p] = "sent" /\ linked[p]
  /\ IF Holder = Token(p)
       THEN /\ until' = now + Ttl
            /\ misses' = [misses EXCEPT ![p] = 0]
            /\ Answer(p, "extended")
       ELSE Answer(p, "denied") /\ UNCHANGED <<until, misses>>
  /\ UNCHANGED <<now, owner, run, runs, timerVars, envVars, cut, evicted>>

\* The script is answered with an error, as by a replica promoted to read-only.
RenewFails(p) ==
  /\ Running(p) /\ call[p] = "sent" /\ linked[p]
  /\ misses' = [misses EXCEPT ![p] = @ + 1]
  /\ Answer(p, "error") /\ Trouble
  /\ UNCHANGED <<now, redisVars, run, runs, timerVars, linked, cut, evicted>>

\* The answer arrives: note the extension, or lose the lock, which fires its
\* signal at once if the key is not ours and after a whole Ttl of errors.
Renewed(p) ==
  /\ Running(p) /\ call[p] = "extended"
  /\ renewedAt' = [renewedAt EXCEPT ![p] = now]
  /\ Settled(p)
  /\ UNCHANGED <<now, redisVars, run, runs, due, envVars, histVars>>

Lose(p) ==
  /\ Running(p)
  /\ call[p] = "denied" \/ (call[p] = "error" /\ now - renewedAt[p] >= Ttl)
  /\ run' = [run EXCEPT ![p] = "stopping"]
  /\ Settled(p)
  /\ UNCHANGED <<now, redisVars, runs, timerVars, envVars, histVars>>

\* Variant: a renewal that extended nothing is forgotten, whatever it was told.
RetryForever(p) ==
  /\ Running(p) /\ call[p] \in {"denied", "error"}
  /\ Settled(p)
  /\ UNCHANGED <<now, redisVars, run, runs, timerVars, envVars, histVars>>

RetryLater(p) ==
  /\ Running(p) /\ call[p] = "error" /\ now - renewedAt[p] < Ttl
  /\ Settled(p)
  /\ UNCHANGED <<now, redisVars, run, runs, timerVars, envVars, histVars>>

-----------------------------------------------------------------------------
(* withLock: the work ends, by itself or because of the signal; release *)

Finish(p) ==
  /\ Running(p)
  /\ run' = [run EXCEPT ![p] = "releasing"]
  /\ ClearTimer(p) /\ Send(p)
  /\ UNCHANGED <<now, redisVars, runs, envVars, histVars>>

\* Variant: release deletes the key whoever it belongs to.
ReleaseAnyone(p) ==
  /\ run[p] = "releasing" /\ linked[p]
  /\ run' = [run EXCEPT ![p] = "idle"]
  /\ owner' = NoOne
  /\ Settled(p)
  /\ UNCHANGED <<now, until, runs, timerVars, envVars, histVars>>

\* RELEASE_SCRIPT: delete only a key that is still ours.
Release(p) ==
  /\ run[p] = "releasing" /\ linked[p]
  /\ run' = [run EXCEPT ![p] = "idle"]
  /\ owner' = IF Holder = Token(p) THEN NoOne ELSE owner
  /\ Settled(p)
  /\ UNCHANGED <<now, until, runs, timerVars, envVars, histVars>>

\* The release is answered with an error: the time to live is the backstop.
ReleaseFails(p) ==
  /\ run[p] = "releasing" /\ linked[p]
  /\ run' = [run EXCEPT ![p] = "idle"]
  /\ Settled(p) /\ Trouble
  /\ UNCHANGED <<now, redisVars, runs, timerVars, linked, histVars>>

-----------------------------------------------------------------------------
(* The environment *)

\* The process dies with the lock; its key stays until it expires.
Crash(p) ==
  /\ run[p] # "idle"
  /\ run' = [run EXCEPT ![p] = "idle"]
  /\ ClearTimer(p) /\ Settled(p) /\ Trouble
  /\ UNCHANGED <<now, redisVars, runs, linked, histVars>>

\* An operator or a failover deletes the key.
Evict ==
  /\ Holder # NoOne
  /\ owner' = NoOne
  /\ evicted' = [p \in Process |-> evicted[p] \/ owner = Token(p)]
  /\ Trouble
  /\ UNCHANGED <<now, until, run, runs, callVars, timerVars, linked, cut, misses>>

\* The connection breaks: an answer under way is lost, its command queued again.
LinkDown(p) ==
  /\ linked[p]
  /\ linked' = [linked EXCEPT ![p] = FALSE]
  /\ cut' = [cut EXCEPT ![p] = TRUE]
  /\ call' = [call EXCEPT ![p] = IF @ = "none" THEN "none" ELSE "sent"]
  /\ Trouble
  /\ UNCHANGED <<now, redisVars, run, runs, sentAt, timerVars, evicted, misses>>

LinkUp(p) ==
  /\ ~linked[p]
  /\ linked' = [linked EXCEPT ![p] = TRUE]
  /\ sentAt' = [sentAt EXCEPT ![p] = IF call[p] = "none" THEN 0 ELSE now]
  /\ UNCHANGED <<now, redisVars, run, runs, call, timerVars, histVars, troubles>>

\* No timer of p's is due and no answer to it is late.
OnTime(p) ==
  /\ Running(p) => now < due[p]
  /\ linked[p] /\ call[p] # "none" => now < sentAt[p] + Latency

Tick ==
  /\ now < MaxTime
  /\ \A p \in Process : OnTime(p)
  /\ now' = now + 1
  /\ UNCHANGED <<redisVars, run, runs, callVars, timerVars, envVars, histVars>>

-----------------------------------------------------------------------------
Step(p) ==
  \/ Ask(p) \/ AcquireExec(p) \/ Granted(p) \/ Refused(p) \/ AskFails(p)
  \/ RenewSend(p) \/ RenewExec(p) \/ RenewFails(p)
  \/ Renewed(p) \/ Lose(p) \/ RetryLater(p)
  \/ Finish(p) \/ Release(p) \/ ReleaseFails(p)
  \/ Crash(p) \/ LinkDown(p) \/ LinkUp(p)

Next == (\E p \in Process : Step(p)) \/ Evict \/ Tick

Spec == Init /\ [][Next]_vars

-----------------------------------------------------------------------------
(* Properties *)

\* Every variable has its type: the key holds the token of a run some process
\* has started, or nobody's.
TypeOK ==
  /\ now \in Nat
  /\ owner \in (Process \X (0..MaxRuns)) \cup {NoOne}
  /\ until \in Nat
  /\ run \in [Process -> {"idle", "asking", "working", "stopping", "releasing"}]
  /\ runs \in [Process -> 0..MaxRuns]
  /\ call \in [Process -> {"none", "sent", "granted", "refused", "extended", "denied", "error"}]
  /\ sentAt \in [Process -> Nat]
  /\ due \in [Process -> Nat]
  /\ renewedAt \in [Process -> Nat]
  /\ linked \in [Process -> BOOLEAN]
  /\ cut \in [Process -> BOOLEAN]
  /\ evicted \in [Process -> BOOLEAN]
  /\ misses \in [Process -> Nat]
  /\ troubles \in Nat

\* A run that was not cut off, whose key nobody deleted and whose renewals did
\* not fail twice in a row.
Healthy(p) == ~cut[p] /\ ~evicted[p] /\ misses[p] <= 1

\* Two runs are never at work at once while both are healthy: the backstop that
\* holds across replicas (src/jobs/catalog-queue.ts).
Exclusion ==
  \A p, q \in Process :
    run[p] = "working" /\ run[q] = "working" /\ Healthy(p) /\ Healthy(q) => p = q

\* The timing of a run that was not cut off: its timer and its commands are on
\* time, and a renewal is answered before the next is due.
OnSchedule(p) ==
  /\ Running(p) =>
       /\ linked[p] /\ now <= due[p]
       /\ call[p] # "none" => sentAt[p] <= now /\ now <= sentAt[p] + Latency
                              /\ due[p] = sentAt[p] + RenewEvery
  /\ run[p] = "asking" =>
       /\ misses[p] = 0 /\ call[p] \in {"sent", "granted", "refused"}
       /\ call[p] # "sent" => linked[p]
       /\ linked[p] => sentAt[p] <= now /\ now <= sentAt[p] + Latency

\* Its key outlives one failed renewal by enough for the next to arrive.
Covered(p) ==
  /\ Running(p) =>
       /\ owner = Token(p) /\ call[p] # "denied"
       /\ misses[p] = 0 => call[p] # "error" /\ until >= due[p] + Latency
       /\ misses[p] = 0 /\ call[p] # "sent" => until >= due[p] + RenewEvery + Latency
       /\ misses[p] = 1 => call[p] # "extended"
       /\ misses[p] = 1 /\ call[p] # "sent" => until >= due[p] + Latency
       /\ misses[p] = 1 /\ call[p] = "sent" => until >= sentAt[p] + Latency
  /\ run[p] = "asking" /\ call[p] = "granted" =>
       linked[p] /\ owner = Token(p) /\ until >= sentAt[p] + Ttl

CoveredIfHealthy(p) ==
  /\ run[p] # "idle" => runs[p] > 0
  /\ ~cut[p] => OnSchedule(p)
  /\ Healthy(p) => Covered(p)

HealthyRunsAreCovered == \A p \in Process : CoveredIfHealthy(p)

\* Being unable to renew for a whole TTL is not survivable (the comment in renew):
\* a run whose renewals fail is told so at the latest one period and one answer
\* after its key must have expired.
NoticedInTime(p) == run[p] = "working" => now < renewedAt[p] + Ttl + RenewEvery + Latency
UnrenewedRunStops == \A p \in Process : NoticedInTime(p)

\* It is told, whether its key is gone or Redis answers with errors, unless it
\* is cut off.
AnsweredRunStops == \A p \in Process : ~cut[p] => NoticedInTime(p)

=============================================================================
