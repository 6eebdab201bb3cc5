----------------------------- MODULE DashboardCache -----------------------------
(***************************************************************************)
(* One endpoint of the dashboard (src/dashboard/index.ts): the answer is       *)
(* remembered for a while, served stale while it is refreshed, and refreshed    *)
(* by one query at a time.  A query is several statements                      *)
(* (src/dashboard/queries.ts), here two.  The database is a number that grows   *)
(* with every change, time is what is left of a TTL.                            *)
(***************************************************************************)
EXTENDS Integers, FiniteSets

CONSTANTS
  Client,
  TTL,          \* cacheTtlMs times the endpoint's multiplier, in ticks
  MaxVersion, MaxFaults   \* bounds

VARIABLES
  version,    \* the database
  cached,     \* what the last good query read, or Null
  expires,    \* ticks until it is stale
  inflight,   \* queries that have not been answered
  waiting,    \* clients that wait for a query, with its number
  served,     \* history: what clients have got, at most
  failed,     \* history: whether a query failed since the last was begun
  sinceStart, \* history: ticks since a query was begun, TTL at most
  answer,     \* client |-> its last response
  faults

vars == <<version, cached, expires, inflight, waiting, served, failed, sinceStart, answer, faults>>

Null    == -1
Unread  == [counts |-> Null, open |-> Null]
Failure == [counts |-> -2, open |-> -2]
Numbers == {0, 1}

Init ==
  /\ version = 0 /\ cached = Unread /\ expires = 0
  /\ inflight = {} /\ waiting = [c \in Client |-> Null]
  /\ served = 0 /\ failed = TRUE /\ sinceStart = TTL
  /\ answer = [c \in Client |-> Unread] /\ faults = 0

\* A catalog crawl, a check: anything that writes.
Change ==
  /\ version < MaxVersion /\ version' = version + 1
  /\ UNCHANGED <<cached, expires, inflight, waiting, served, failed, sinceStart, answer, faults>>

Down(n) == IF n > 0 THEN n - 1 ELSE 0

Tick ==
  /\ expires' = Down(expires)
  /\ sinceStart' = IF sinceStart < TTL THEN sinceStart + 1 ELSE TTL
  /\ UNCHANGED <<version, cached, inflight, waiting, served, failed, answer, faults>>

-----------------------------------------------------------------------------
(* memo *)

Begun(flights) ==
  LET free == Numbers \ {q.number : q \in flights}
  IN IF free = {} THEN flights
     ELSE flights \cup {[number |-> CHOOSE n \in free : TRUE, read |-> Unread]}

\* Variant: every refresh is a query.
RefreshEach == inflight' = Begun(inflight)

\* refresh: a query, unless there is one in flight.
Refresh == inflight' = IF inflight = {} THEN Begun(inflight) ELSE inflight

Started ==
  IF inflight' # inflight THEN sinceStart' = 0 /\ failed' = FALSE
                          ELSE UNCHANGED <<sinceStart, failed>>

\* The newest query, which is the one that refresh returns.
Awaited(flights) == CHOOSE n \in {q.number : q \in flights} : TRUE

\* prime, at boot: nobody waits.
Prime ==
  /\ cached = Unread /\ Refresh /\ Started
  /\ UNCHANGED <<version, cached, expires, waiting, served, answer, faults>>

Greater(a, b) == IF a > b THEN a ELSE b

\* get, of a cold cache: the client waits, with whoever waits already.
GetCold(c) ==
  /\ waiting[c] = Null /\ cached = Unread
  /\ Refresh /\ Started
  /\ waiting' = [waiting EXCEPT ![c] = Awaited(inflight')]
  /\ UNCHANGED <<version, cached, expires, served, answer, faults>>

\* get: the client has what there is, and a refresh goes on behind it if it is stale.
GetWarm(c) ==
  /\ waiting[c] = Null /\ cached # Unread
  /\ IF expires = 0 THEN Refresh ELSE UNCHANGED inflight
  /\ Started
  /\ answer' = [answer EXCEPT ![c] = cached]
  /\ served' = Greater(served, cached.open)
  /\ UNCHANGED <<version, cached, expires, waiting, faults>>

\* The statements of a query, one after the other and each at its own time: the
\* counts, then the rows.
ReadCounts(q) ==
  /\ q.read.counts = Null
  /\ inflight' = (inflight \ {q}) \cup {[q EXCEPT !.read.counts = version]}
  /\ UNCHANGED <<version, cached, expires, waiting, served, failed, sinceStart, answer, faults>>

ReadOpen(q) ==
  /\ q.read.counts # Null /\ q.read.open = Null
  /\ inflight' = (inflight \ {q}) \cup {[q EXCEPT !.read.open = version]}
  /\ UNCHANGED <<version, cached, expires, waiting, served, failed, sinceStart, answer, faults>>

\* Whoever waited for q has value.
Release(q, value) ==
  LET released == {c \in Client : waiting[c] = q.number} IN
  /\ waiting' = [c \in Client |-> IF c \in released THEN Null ELSE waiting[c]]
  /\ answer' = [c \in Client |-> IF c \in released THEN value ELSE answer[c]]
  /\ served' = IF released = {} THEN served ELSE Greater(served, value.open)

Complete(q) ==
  /\ q.read.open >= 0
  /\ cached' = q.read /\ expires' = TTL /\ inflight' = inflight \ {q}
  /\ Release(q, q.read)
  /\ UNCHANGED <<version, failed, sinceStart, faults>>

\* Variant: the promise that failed stays.
FailKept(q) ==
  /\ faults < MaxFaults /\ faults' = faults + 1
  /\ failed' = TRUE
  /\ inflight' = (inflight \ {q}) \cup {[q EXCEPT !.read = Failure]}
  /\ Release(q, Failure)
  /\ UNCHANGED <<version, cached, expires, sinceStart>>

\* A statement fails: those who waited get a 503, the rest keep what there was.
Fail(q) ==
  /\ faults < MaxFaults /\ faults' = faults + 1
  /\ failed' = TRUE /\ inflight' = inflight \ {q}
  /\ Release(q, Failure)
  /\ UNCHANGED <<version, cached, expires, sinceStart>>

-----------------------------------------------------------------------------
Next ==
  \/ Change \/ Tick \/ Prime
  \/ \E c \in Client : GetCold(c) \/ GetWarm(c)
  \/ \E q \in inflight : ReadCounts(q) \/ ReadOpen(q) \/ Complete(q) \/ Fail(q)

Spec == Init /\ [][Next]_vars

\* Time passes, Postgres answers, and the status page polls.
Answers == \E q \in inflight : ReadCounts(q) \/ ReadOpen(q) \/ Complete(q) \/ Fail(q)
Polls   == \E c \in Client : GetCold(c) \/ GetWarm(c)
Fairness == WF_vars(Tick) /\ WF_vars(Answers) /\ WF_vars(Polls)

-----------------------------------------------------------------------------
(* Properties *)

\* index.ts: stale but never backwards: no client gets older rows than some client
\* has had; a warm cache answers whatever has become of the queries since; and load
\* is decoupled from requests: a query begins a TTL after the last one, unless that
\* failed.
SteadyStep ==
  /\ \A c \in Client : answer'[c] # answer[c] /\ answer'[c] # Failure =>
       answer'[c].open >= served /\ answer'[c].counts <= answer'[c].open
  /\ \A c \in Client : answer'[c] = Failure /\ answer[c] # Failure => cached = Unread
  /\ Cardinality(inflight') > Cardinality(inflight) => failed \/ sinceStart = TTL
Steady == [][SteadyStep]_vars

\* Silently stale is not fine: what has changed is shown in the end, to a page that
\* polls, failures or not.
CatchesUp == \A v \in 0..MaxVersion : version >= v ~> served >= v

\* index.ts: "Postgres sees at most one query per endpoint per TTL no matter how many
\* people are looking".
Decoupled == [][Cardinality(inflight') > Cardinality(inflight) => sinceStart = TTL]_vars

\* One payload is of one moment.
OneMoment == cached.counts = cached.open

=============================================================================
