----------------------------- MODULE SystemAlerts -----------------------------
(***************************************************************************)
(* Alerts about the service itself (src/alerts/system.ts): the health signals *)
(* of a snapshot and the sample before it, and their messages, which the      *)
(* dedupe rule for alerts without a magnitude spaces (src/alerts/dedupe.ts,   *)
(* src/alerts/store.ts).  The module exports both and nothing calls them yet: *)
(* the caller here takes a snapshot now and then, keeps its last sample while *)
(* it lives, and alerts.                                                      *)
(***************************************************************************)
EXTENDS Integers, Sequences

CONSTANTS
  Replica, Cooldown,
  IngestStale, RateHits, RateWindow, QueueDepth,
  FailureRate, MinSample,  \* of records with an issue: one in FailureRate
  MaxTime, MaxWork, MaxFaults   \* bounds

VARIABLES
  clock,
  lastIngest,  \* of the service, Never at first
  depth,       \* of the coherence queue
  counters,    \* replica |-> [hits, records, issues] since its start
  previous,    \* replica |-> its last sample, or NoSample
  runs,        \* replica |-> the alerting it is at
  rows,        \* alert_deliveries: signal |-> lastSentAt, Never if there is no row
  posts,       \* history: signal |-> when its messages were sent
  trouble,     \* history: signals of which a message or a statement has failed
  work, faults

service == <<lastIngest, depth, counters>>
vars == <<clock, service, previous, runs, rows, posts, trouble, work, faults>>

Never    == -100
NoSample == [at |-> Never]
Signal   == {"ingest-stale", "rate-limit-spike", "queue-depth-growing", "gamma-parse-failures"}
Zero     == [hits |-> 0, records |-> 0, issues |-> 0]
Idle     == [pc |-> "idle", now |-> 0, todo |-> {}, known |-> Never]

Init ==
  /\ clock = 0 /\ lastIngest = Never /\ depth = 0
  /\ counters = [r \in Replica |-> Zero] /\ previous = [r \in Replica |-> NoSample]
  /\ runs = [r \in Replica |-> Idle]
  /\ rows = [s \in Signal |-> Never] /\ posts = [s \in Signal |-> <<>>]
  /\ trouble = {} /\ work = 0 /\ faults = 0

Tick ==
  /\ clock < MaxTime /\ clock' = clock + 1
  /\ UNCHANGED <<service, previous, runs, rows, posts, trouble, work, faults>>

\* What the signals are about.
Work ==
  /\ work < MaxWork /\ work' = work + 1
  /\ \/ lastIngest' = clock /\ UNCHANGED <<depth, counters>>
     \/ depth' \in 0..(QueueDepth + 2) \ {depth} /\ UNCHANGED <<lastIngest, counters>>
     \/ \E r \in Replica :
          /\ \/ counters' = [counters EXCEPT ![r].hits = @ + 1 + RateHits]
             \/ \E issues \in {0, MinSample} :
                  counters' = [counters EXCEPT ![r].records = @ + MinSample, ![r].issues = @ + issues]
          /\ UNCHANGED <<lastIngest, depth>>
  /\ UNCHANGED <<clock, previous, runs, rows, posts, trouble, faults>>

-----------------------------------------------------------------------------
(* evaluateSystem *)

Sample(r) == [at |-> clock, depth |-> depth, counted |-> counters[r]]

NotNegative(n) == IF n < 0 THEN 0 ELSE n

\* The signals that a snapshot raises, given the sample before it.
EvaluateSystem(now, before) ==
  LET elapsed == now.at - before.at
      since(field) == now.counted[field] - before.counted[field]
      changes == before # NoSample /\ elapsed > 0
  IN {s \in Signal :
       CASE s = "ingest-stale" -> lastIngest # Never /\ now.at - lastIngest > IngestStale
         [] s = "rate-limit-spike" ->
              changes /\ NotNegative(since("hits")) * RateWindow > RateHits * elapsed
         [] s = "queue-depth-growing" ->
              changes /\ now.depth > QueueDepth /\ now.depth > before.depth
         [] OTHER ->
              /\ changes /\ since("records") >= MinSample
              /\ NotNegative(since("issues")) * FailureRate > since("records")}

Evaluate(r) ==
  /\ runs[r].pc = "idle"
  /\ LET found == EvaluateSystem(Sample(r), previous[r]) IN
       runs' = [runs EXCEPT ![r] = IF found = {} THEN Idle
                                   ELSE [Idle EXCEPT !.pc = "next", !.now = clock, !.todo = found]]
  /\ previous' = [previous EXCEPT ![r] = Sample(r)]
  /\ UNCHANGED <<clock, service, rows, posts, trouble, work, faults>>

-----------------------------------------------------------------------------
(* alertSystem, a finding at a time *)

Finding(r) == CHOOSE s \in runs[r].todo : TRUE

\* On to the next finding.
Onward(r) ==
  LET rest == runs[r].todo \ {Finding(r)}
  IN runs' = [runs EXCEPT ![r] = IF rest = {} THEN Idle ELSE [@ EXCEPT !.pc = "next", !.todo = rest]]

LoadDelivery(r) ==
  /\ runs[r].pc = "next"
  /\ runs' = [runs EXCEPT ![r].pc = "deciding", ![r].known = rows[Finding(r)]]
  /\ UNCHANGED <<clock, service, previous, rows, posts, trouble, work, faults>>

\* Variant: the finding's value is compared, with none in the row.
DecideOnValue(known, now) == IF known = Never THEN "send" ELSE "suppress"

\* decide: with no value a cooldown is what it takes.
Decide(known, now) == IF known = Never \/ now - known >= Cooldown THEN "send" ELSE "suppress"

Suppress(r) ==
  /\ runs[r].pc = "deciding" /\ Decide(runs[r].known, runs[r].now) = "suppress"
  /\ Onward(r)
  /\ UNCHANGED <<clock, service, previous, rows, posts, trouble, work, faults>>

\* claim, the first time; that it was lost counts as suppressed.
Claim(r) ==
  /\ runs[r].pc = "deciding" /\ runs[r].known = Never
  /\ IF rows[Finding(r)] = Never
       THEN /\ rows' = [rows EXCEPT ![Finding(r)] = runs[r].now]
            /\ runs' = [runs EXCEPT ![r].pc = "sending"]
       ELSE Onward(r) /\ UNCHANGED rows
  /\ UNCHANGED <<clock, service, previous, posts, trouble, work, faults>>

Said(r) == posts' = [posts EXCEPT ![Finding(r)] = Append(@, runs[r].now)]

SendFirst(r) ==
  /\ runs[r].pc = "sending" /\ Said(r) /\ Onward(r)
  /\ UNCHANGED <<clock, service, previous, rows, trouble, work, faults>>

\* A reminder claims nothing.
SendAgain(r) ==
  /\ runs[r].pc = "deciding" /\ runs[r].known # Never
  /\ Decide(runs[r].known, runs[r].now) = "send"
  /\ Said(r) /\ runs' = [runs EXCEPT ![r].pc = "recording"]
  /\ UNCHANGED <<clock, service, previous, rows, trouble, work, faults>>

\* Variant: the count moves, the time does not.
RecordResendUndated(r) ==
  /\ runs[r].pc = "recording" /\ Onward(r)
  /\ UNCHANGED <<clock, service, previous, rows, posts, trouble, work, faults>>

RecordResend(r) ==
  /\ runs[r].pc = "recording"
  /\ rows' = [rows EXCEPT ![Finding(r)] = runs[r].now]
  /\ Onward(r)
  /\ UNCHANGED <<clock, service, previous, posts, trouble, work, faults>>

\* A message or a statement fails: on to the next finding.
Fail(r) ==
  /\ runs[r].pc \in {"deciding", "sending", "recording"}
  /\ faults < MaxFaults /\ faults' = faults + 1
  /\ trouble' = trouble \cup {Finding(r)}
  /\ Onward(r)
  /\ UNCHANGED <<clock, service, previous, rows, posts, work>>

\* The load is outside the try, and the replica may die: nothing more of this run.
\* Counters and the sample live and die with the process.
Die(r) ==
  /\ faults < MaxFaults /\ faults' = faults + 1
  /\ trouble' = trouble \cup runs[r].todo
  /\ runs' = [runs EXCEPT ![r] = Idle]
  /\ \/ UNCHANGED <<counters, previous>>
     \/ /\ counters' = [counters EXCEPT ![r] = Zero]
        /\ previous' = [previous EXCEPT ![r] = NoSample]
  /\ UNCHANGED <<clock, lastIngest, depth, rows, posts, work>>

-----------------------------------------------------------------------------
Next ==
  \/ Tick \/ Work
  \/ \E r \in Replica :
       \/ Evaluate(r) \/ LoadDelivery(r) \/ Suppress(r) \/ Claim(r) \/ SendFirst(r)
       \/ SendAgain(r) \/ RecordResend(r) \/ Fail(r) \/ Die(r)

Spec == Init /\ [][Next]_vars

-----------------------------------------------------------------------------
(* Properties *)

\* system.ts: "A condition that stays true ... sends once, then again only when the
\* cooldown has elapsed", on one replica: two messages about a signal are a cooldown
\* apart; and none is forgotten: an evaluation that has found a signal leaves a message
\* no older than a cooldown.  Neither holds of a signal of which a message or a
\* statement has failed.
Spaced(r, s) ==
  posts'[s] # posts[s] /\ posts[s] # <<>> =>
    runs[r].now - posts[s][Len(posts[s])] >= Cooldown
Mentioned(r, s) ==
  s \in runs[r].todo /\ s \notin runs'[r].todo =>
    posts'[s] # <<>> /\ runs[r].now - posts'[s][Len(posts'[s])] < Cooldown
Reminds == \A r \in Replica : \A s \in Signal \ trouble' : Spaced(r, s) /\ Mentioned(r, s)
Reminded == [][Reminds]_vars

=============================================================================
