----------------------------- MODULE HourlyDigest -----------------------------
(***************************************************************************)
(* The hourly digest of violations nobody could trade on                      *)
(* (src/alerts/digest.ts, called from src/alerts/index.ts after every check), *)
(* beside the recording of episodes (src/coherence/violations-store.ts), on    *)
(* replicas that share the database.  Both happen outside the check's lock.    *)
(***************************************************************************)
EXTENDS Integers, Sequences, FiniteSets

CONSTANTS
  Replica, Episode,
  HourLength,   \* ticks
  ListLimit,    \* violations a digest lists at most
  MaxTime, MaxFaults   \* bounds

VARIABLES
  clock,
  episodes,   \* violations: episode |-> [detected, confirmed]
  claimed,    \* alert_deliveries: the hours that have a digest's row
  jobs,       \* replica |-> the job it runs
  posts,      \* history: the digests the channel has
  done,       \* history: hours whose digest some replica found sent, sent, or empty
  late,       \* history: episodes inserted when their hour was over
  faults

vars == <<clock, episodes, claimed, jobs, posts, done, late, faults>>

Never == -1
None  == [pc |-> "idle", now |-> 0, entries |-> {}, confirmed |-> {}]

HourOf(t) == t \div HourLength

Init ==
  /\ clock = HourLength
  /\ episodes = [e \in Episode |-> [detected |-> Never, confirmed |-> FALSE]]
  /\ claimed = {} /\ jobs = [r \in Replica |-> None]
  /\ posts = <<>> /\ done = {} /\ late = {} /\ faults = 0

Tick ==
  /\ clock < MaxTime /\ clock' = clock + 1
  /\ UNCHANGED <<episodes, claimed, jobs, posts, done, late, faults>>

At(r, pc) == jobs[r].pc = pc
GoTo(r, pc) == jobs' = [jobs EXCEPT ![r].pc = pc]
Leave(r) == jobs' = [jobs EXCEPT ![r] = None]

-----------------------------------------------------------------------------
(* recordViolations: its time is taken when it begins, its statements are many *)

BeginRecording(r) ==
  /\ At(r, "idle")
  /\ jobs' = [jobs EXCEPT ![r] = [None EXCEPT !.pc = "recording", !.now = clock]]
  /\ UNCHANGED <<clock, episodes, claimed, posts, done, late, faults>>

InsertEpisode(r, e) ==
  /\ At(r, "recording") /\ episodes[e].detected = Never
  /\ \E confirmed \in BOOLEAN :
       episodes' = [episodes EXCEPT ![e] = [detected |-> jobs[r].now, confirmed |-> confirmed]]
  /\ late' = IF HourOf(jobs[r].now) < HourOf(clock) THEN late \cup {e} ELSE late
  /\ UNCHANGED <<clock, claimed, jobs, posts, done, faults>>

Upgrade(r, e) ==
  /\ At(r, "recording") /\ episodes[e].detected # Never /\ ~episodes[e].confirmed
  /\ episodes' = [episodes EXCEPT ![e].confirmed = TRUE]
  /\ UNCHANGED <<clock, claimed, jobs, posts, done, late, faults>>

-----------------------------------------------------------------------------
(* sendHourlyDigest *)

BeginDigest(r) ==
  /\ At(r, "recording")
  /\ jobs' = [jobs EXCEPT ![r] = [None EXCEPT !.pc = "listing", !.now = clock]]
  /\ UNCHANGED <<clock, episodes, claimed, posts, done, late, faults>>

\* Variant: the hour that has begun.
WindowOfNow(r) == HourOf(jobs[r].now)

\* The last complete hour.
Window(r) == HourOf(jobs[r].now) - 1

DetectedIn(hour) == {e \in Episode : episodes[e].detected # Never /\ HourOf(episodes[e].detected) = hour}
Unconfirmed      == {e \in Episode : ~episodes[e].confirmed}

\* The largest within the limit: any that many, for all that is said of magnitudes here.
Listed(found) ==
  IF Cardinality(found) <= ListLimit THEN {found}
  ELSE {listed \in SUBSET found : Cardinality(listed) = ListLimit}

List(r) ==
  /\ At(r, "listing")
  /\ \E listed \in Listed(DetectedIn(Window(r)) \cap Unconfirmed) :
       jobs' = [jobs EXCEPT ![r].pc = "counting", ![r].entries = listed]
  /\ UNCHANGED <<clock, episodes, claimed, posts, done, late, faults>>

\* A statement of its own: an episode upgraded since is both listed and counted.
Count(r) ==
  /\ At(r, "counting")
  /\ IF jobs[r].entries = {}
       THEN Leave(r) /\ done' = done \cup {Window(r)}
       ELSE /\ jobs' = [jobs EXCEPT ![r].pc = "claiming", ![r].confirmed = DetectedIn(Window(r)) \ Unconfirmed]
            /\ UNCHANGED done
  /\ UNCHANGED <<clock, episodes, claimed, posts, late, faults>>

\* Variant: the insert returns the row that is there.
ClaimUpserting(r) ==
  /\ At(r, "claiming") /\ GoTo(r, "sending")
  /\ claimed' = claimed \cup {Window(r)}
  /\ UNCHANGED <<clock, episodes, posts, done, late, faults>>

\* claim: one insert for the hour wins.
Claim(r) ==
  /\ At(r, "claiming")
  /\ IF Window(r) \in claimed
       THEN Leave(r) /\ done' = done \cup {Window(r)} /\ UNCHANGED claimed
       ELSE GoTo(r, "sending") /\ claimed' = claimed \cup {Window(r)} /\ UNCHANGED done
  /\ UNCHANGED <<clock, episodes, posts, late, faults>>

\* What the transport sends again because its answer was lost is one message here
\* (AlertDelivery says more of it).
Send(r) ==
  /\ At(r, "sending") /\ GoTo(r, "noting")
  /\ posts' = Append(posts, [hour |-> Window(r), entries |-> jobs[r].entries,
                             confirmed |-> jobs[r].confirmed])
  /\ UNCHANGED <<clock, episodes, claimed, done, late, faults>>

\* recordMessageId
Note(r) ==
  /\ At(r, "noting") /\ Leave(r)
  /\ done' = done \cup {Window(r)}
  /\ UNCHANGED <<clock, episodes, claimed, posts, late, faults>>

\* A statement or the message fails, or the replica dies: a claim stays, the job is
\* not taken up again.
Fail(r) ==
  /\ ~At(r, "idle") /\ faults < MaxFaults /\ faults' = faults + 1
  /\ Leave(r)
  /\ UNCHANGED <<clock, episodes, claimed, posts, done, late>>

-----------------------------------------------------------------------------
Next ==
  \/ Tick
  \/ \E r \in Replica :
       \/ BeginRecording(r) \/ BeginDigest(r) \/ List(r) \/ Count(r) \/ Claim(r)
       \/ Send(r) \/ Note(r) \/ Fail(r)
       \/ \E e \in Episode : InsertEpisode(r, e) \/ Upgrade(r, e)

Spec == Init /\ [][Next]_vars

-----------------------------------------------------------------------------
(* Properties *)

\* What the digests of an hour list, sent or about to be.
Digests(hour) ==
  {posts[i].entries : i \in {i \in DOMAIN posts : posts[i].hour = hour}}
    \cup {jobs[r].entries : r \in {r \in Replica : At(r, "sending") /\ Window(r) = hour}}

Missed(hour) == (DetectedIn(hour) \cap Unconfirmed) \ UNION Digests(hour)

\* A digest that lists all it may.
Full(hour) == \E entries \in Digests(hour) : Cardinality(entries) = ListLimit

\* digest.ts: "the digest for 14:00 can be sent exactly once no matter how many times
\* the job fires or restarts inside that hour", on any replica, with nothing from
\* another hour; and it is whole: once a replica has done with an hour, what was
\* detected in it and is unconfirmed to this day is in its digest, sent or about to be
\* -- unless the digest lists as many as it may, a job failed, or the violation was
\* inserted when its hour was already over.
DigestIsWhole ==
  /\ \A i, k \in DOMAIN posts : posts[i].hour = posts[k].hour => i = k
  /\ \A i \in DOMAIN posts : posts[i].entries \subseteq DetectedIn(posts[i].hour)
  /\ faults = 0 => \A hour \in done : Full(hour) \/ Missed(hour) \subseteq late

\* digest.ts: "the last *complete* hour": nothing recorded later belongs to it.
NoneMissed == faults = 0 => \A hour \in done : Missed(hour) = {}

=============================================================================
