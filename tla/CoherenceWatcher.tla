--------------------------- MODULE CoherenceWatcher ---------------------------
(***************************************************************************)
(* The event-driven screen and what comes of it: the feed marks constraints   *)
(* (src/coherence/watch.ts), the runner flushes them, queues a check and      *)
(* rebuilds the subscription (src/jobs/market-feed.ts), and the queue runs    *)
(* checks, those of the scheduler and those of the feed                       *)
(* (src/jobs/coherence-queue.ts).  MarketFeed says how books come to be       *)
(* readable; here a readable book has the venue's price.                      *)
(***************************************************************************)
EXTENDS Integers, Sequences

CONSTANTS
  Market,
  Key, Members,   \* constraints: key |-> <<antecedent, consequent>>
  Cooldown,       \* MARKET_FEED_TRIGGER_COOLDOWN_MS
  Attempts,       \* of a job
  MaxTime, MaxChanges, MaxJobs, MaxFaults   \* bounds

ASSUME MembersAssumption == Members \in [Key -> Market \X Market]

VARIABLES
  price,        \* the venue
  stored,       \* the constraints loadConstraints would find
  readable,     \* markets whose book the feed can price
  index,        \* the watcher's constraints
  dirty, violating,
  refresh,      \* of the subscription: where it is, and what it has loaded
  running,      \* the runner's timers
  lastTrigger, clock,
  jobs,         \* the queue: attempts made of each waiting job
  dead,         \* the dead-letter queue
  heard,        \* history: constraints of which the watcher has heard since a book of
                \* theirs was last replaced in silence
  examined,     \* history: constraints a check has found violated as they are
  changes, faults

feed  == <<price, stored, readable>>
watch == <<index, dirty, violating>>
queue == <<jobs, dead>>
vars  == <<feed, watch, refresh, running, lastTrigger, clock, queue, heard, examined,
           changes, faults>>

Never == -100
Idle  == [at |-> "none", loaded |-> {}]

Init ==
  /\ price = [m \in Market |-> 0] /\ stored \in SUBSET Key /\ readable = {}
  /\ index = {} /\ dirty = {} /\ violating = {}
  /\ refresh = Idle /\ running = TRUE
  /\ lastTrigger = Never /\ clock = 0
  /\ jobs = <<>> /\ dead = 0
  /\ heard = {} /\ examined = {} /\ changes = 0 /\ faults = 0

Of(m) == {k \in Key : \E i \in 1..2 : Members[k][i] = m}

\* implies: the antecedent is the more probable.
Violated(k)    == price[Members[k][1]] > price[Members[k][2]]
Screenable(k)  == {Members[k][1], Members[k][2]} \subseteq readable

Tick ==
  /\ clock < MaxTime /\ clock' = clock + 1
  /\ UNCHANGED <<feed, watch, refresh, running, lastTrigger, queue, heard, examined,
                 changes, faults>>

-----------------------------------------------------------------------------
(* The feed and the watcher *)

\* Variant: a constraint is indexed by its antecedent's token.
MarkedByAntecedent(m) == {k \in index : Members[k][1] = m}

\* observe: the constraints the index has for the token.
Marked(m) == index \cap Of(m)

Violations(prices) == {k \in stored : prices[Members[k][1]] > prices[Members[k][2]]}

\* An update of a book, or a book the venue pushes: listeners hear of it.
Observe(m) ==
  /\ running /\ m \in readable /\ changes < MaxChanges
  /\ \E p \in 0..1 : price' = [price EXCEPT ![m] = p]
  /\ dirty' = dirty \cup Marked(m)
  /\ heard' = heard \cup (index \cap Of(m))
  /\ examined' = examined \cap Violations(price')
  /\ changes' = changes + 1
  /\ UNCHANGED <<stored, readable, index, violating, refresh, running, lastTrigger, clock,
                 queue, faults>>

\* The venue's price of a market whose book cannot be read.
MoveUnread(m) ==
  /\ m \notin readable /\ changes < MaxChanges
  /\ \E p \in 0..1 : p # price[m] /\ price' = [price EXCEPT ![m] = p]
  /\ examined' = examined \cap Violations(price')
  /\ changes' = changes + 1
  /\ UNCHANGED <<stored, readable, watch, refresh, running, lastTrigger, clock, queue,
                 heard, faults>>

\* A seed or a repair installs a book, a lost socket takes it away: no listener is
\* called.
Replace(m) ==
  /\ running /\ changes < MaxChanges
  /\ readable' = IF m \in readable THEN readable \ {m} ELSE readable \cup {m}
  /\ heard' = heard \ Of(m)
  /\ changes' = changes + 1
  /\ UNCHANGED <<price, stored, watch, refresh, running, lastTrigger, clock, queue,
                 examined, faults>>

\* A constraint that cannot be screened is forgotten until it is marked again.
Screened == {k \in dirty \cap index : Screenable(k)}

\* flush, of the watcher and of the runner: what it has not reported yet is
\* reported, and a check queued unless one was within the cooldown.
Flush ==
  /\ running /\ dirty # {}
  /\ dirty' = {}
  /\ violating' = (violating \ Screened) \cup {k \in Screened : Violated(k)}
  /\ IF violating' \subseteq violating \/ clock - lastTrigger < Cooldown
       THEN UNCHANGED <<lastTrigger, jobs, faults>>
       ELSE /\ lastTrigger' = clock
            /\ \/ jobs' = (IF Len(jobs) < MaxJobs THEN Append(jobs, 0) ELSE jobs)
                  /\ UNCHANGED faults
               \/ faults < MaxFaults /\ faults' = faults + 1 /\ UNCHANGED jobs
  /\ UNCHANGED <<feed, index, refresh, running, clock, dead, heard, examined, changes>>

-----------------------------------------------------------------------------
(* refresh *)

\* Relations are extracted and reviewed, markets close.
StoreChanges ==
  /\ changes < MaxChanges
  /\ \E s \in SUBSET Key : s # stored /\ stored' = s
  /\ examined' = examined \cap stored' /\ changes' = changes + 1
  /\ UNCHANGED <<price, readable, watch, refresh, running, lastTrigger, clock, queue,
                 heard, faults>>

BeginRefresh ==
  /\ running /\ refresh = Idle
  /\ refresh' = [at |-> "loading", loaded |-> stored]
  /\ UNCHANGED <<feed, watch, running, lastTrigger, clock, queue, heard, examined,
                 changes, faults>>

\* watcher.load replaces the index and keeps the violating it still has; feed.start
\* then makes every book unreadable until it is seeded.
LoadIndex ==
  /\ refresh.at = "loading"
  /\ index' = refresh.loaded
  /\ violating' = violating \cap index'
  /\ readable' = {}
  /\ heard' = {}
  /\ refresh' = [refresh EXCEPT !.at = "starting"]
  /\ UNCHANGED <<price, stored, dirty, running, lastTrigger, clock, queue, examined,
                 changes, faults>>

\* start has seeded what it could.
EndRefresh ==
  /\ refresh.at = "starting"
  /\ readable' \in SUBSET Market /\ readable \subseteq readable'
  /\ heard' = heard \ UNION {Of(m) : m \in readable' \ readable}
  /\ refresh' = Idle
  /\ UNCHANGED <<price, stored, watch, running, lastTrigger, clock, queue, examined,
                 changes, faults>>

\* A query or a request throws.
RefreshFails ==
  /\ refresh # Idle /\ faults < MaxFaults
  /\ refresh' = Idle /\ faults' = faults + 1
  /\ UNCHANGED <<feed, watch, running, lastTrigger, clock, queue, heard, examined, changes>>

\* close stops the timers and the feed.
Close ==
  /\ running /\ faults < MaxFaults /\ faults' = faults + 1
  /\ running' = FALSE /\ readable' = {}
  /\ UNCHANGED <<price, stored, watch, refresh, lastTrigger, clock, queue, heard,
                 examined, changes>>

-----------------------------------------------------------------------------
(* The queue *)

\* The scheduler adds a job every interval, whatever the feed does.
Schedule ==
  /\ jobs = <<>> /\ jobs' = <<0>>
  /\ UNCHANGED <<feed, watch, refresh, running, lastTrigger, clock, dead, heard,
                 examined, changes, faults>>

\* Variant: a check screens what the feed can price.
FoundLive == {k \in stored : Violated(k) /\ Screenable(k)}

\* A check prices every stored constraint, from the feed or else from a quote it has
\* refreshed.
Found == {k \in stored : Violated(k)}

Succeed ==
  /\ jobs # <<>> /\ jobs' = Tail(jobs)
  /\ examined' = examined \cup Found
  /\ UNCHANGED <<feed, watch, refresh, running, lastTrigger, clock, dead, heard, changes,
                 faults>>

\* Another replica holds the lock: the job is complete.
Skip ==
  /\ jobs # <<>> /\ jobs' = Tail(jobs)
  /\ faults < MaxFaults /\ faults' = faults + 1
  /\ UNCHANGED <<feed, watch, refresh, running, lastTrigger, clock, dead, heard,
                 examined, changes>>

\* The check or the recording throws: the job is tried again, or dead-lettered.
Fail ==
  /\ jobs # <<>> /\ faults < MaxFaults /\ faults' = faults + 1
  /\ IF Head(jobs) + 1 < Attempts
       THEN jobs' = Append(Tail(jobs), Head(jobs) + 1) /\ UNCHANGED dead
       ELSE jobs' = Tail(jobs) /\ dead' = dead + 1
  /\ UNCHANGED <<feed, watch, refresh, running, lastTrigger, clock, heard, examined, changes>>

-----------------------------------------------------------------------------
Next ==
  \/ Tick \/ Flush \/ StoreChanges \/ BeginRefresh \/ LoadIndex \/ EndRefresh
  \/ RefreshFails \/ Close \/ Schedule \/ Succeed \/ Skip \/ Fail
  \/ \E m \in Market : Observe(m) \/ MoveUnread(m) \/ Replace(m)

Spec == Init /\ [][Next]_vars

\* The scheduler's and the runner's timers fire, and the worker takes jobs.
Fairness == WF_vars(Flush) /\ WF_vars(Schedule) /\ WF_vars(Succeed \/ Skip \/ Fail)

-----------------------------------------------------------------------------
(* Properties *)

\* The violating set is the truth about what has been flushed: a constraint that can
\* be screened, of which the watcher has heard since a book of its was last replaced,
\* is in it if and only if it is violated -- through rebuilt indices, flushes that
\* could not price it, and members that moved one after the other.
WatcherAgrees ==
  \A k \in heard : (k \notin dirty /\ Screenable(k)) => (k \in violating) = Violated(k)

\* The floor: a violation that lasts is found by some check, though the watcher never
\* heard of it, could not price it, reported it within a cooldown, or reported it to a
\* check that was skipped or failed.
LastingViolationIsFound ==
  \A k \in Key :
    (k \in stored /\ Violated(k)) ~> (k \in examined \/ ~(k \in stored /\ Violated(k)))

\* market-feed.ts: after close nothing is subscribed.
ClosedStaysClosed == ~running => readable = {}

=============================================================================
