------------------------------ MODULE Liveness ------------------------------
(***************************************************************************)
(* What must happen in the end: a violation is found, an alert is followed up, *)
(* the dashboard catches up, a process told to stop stops.  Each behaviour is  *)
(* of one part, and the variables of the others are idle; the watcher's are    *)
(* those of the module extended.                                             *)
(***************************************************************************)
EXTENDS CoherenceWatcher

CONSTANTS
  Replica, Episode, AlertCooldown, Factor, Floor, Lookback,
  MaxEdge, AlertTime, AlertFaults,                          \* the alerts
  Client, TTL, MaxVersion, CacheFaults,                     \* the dashboard's cache
  ShutdownTimeout, DrainTimeout                             \* the process

\* Durations of the settings are numbers of ticks.
ASSUME LivenessAssumption == {TTL, ShutdownTimeout, DrainTimeout} \subseteq Nat

VARIABLES
  part,
  status, edge, closedAt, delivery, posted, pc, now, todo, quoted, ended, known, current,
  excused, version, cached, expires, inflight, waiting, served, failed, sinceStart, answer,
  stage, workers, work, drain, elapsed, drained

alertVars == <<status, edge, closedAt, delivery, posted, pc, now, todo, quoted, ended, known,
               current, excused>>
cacheVars == <<version, cached, expires, inflight, waiting, served, failed, sinceStart, answer>>
shellVars == <<stage, workers, work, drain, elapsed, drained>>
restOfWatch == <<price, stored, readable, index, dirty, violating, refresh, running,
                 lastTrigger, jobs, dead, heard, examined, changes>>

Alerts == INSTANCE AlertDelivery WITH
  Cooldown <- AlertCooldown, MaxTime <- AlertTime, MaxFaults <- AlertFaults

Cache == INSTANCE DashboardCache WITH MaxFaults <- CacheFaults

Shell == INSTANCE ServiceShell

IdleAlerts ==
  /\ status = 0 /\ edge = 0 /\ closedAt = 0 /\ delivery = 0 /\ posted = 0 /\ pc = 0 /\ now = 0
  /\ todo = 0 /\ quoted = 0 /\ ended = 0 /\ known = 0 /\ current = 0
  /\ excused = {}
IdleCache ==
  /\ version = 0 /\ cached = 0 /\ expires = 0 /\ inflight = 0 /\ waiting = 0 /\ served = 0
  /\ failed = 0 /\ sinceStart = 0 /\ answer = 0
IdleWatch ==
  /\ price = 0 /\ stored = {} /\ readable = 0 /\ index = 0 /\ dirty = 0 /\ violating = 0
  /\ refresh = 0 /\ running = 0 /\ lastTrigger = 0 /\ jobs = 0 /\ dead = 0 /\ heard = {}
  /\ examined = {} /\ changes = 0

IdleShell ==
  /\ stage = "none" /\ workers = 0 /\ work = 0 /\ drain = 0 /\ elapsed = 0 /\ drained = 0

LivenessInit ==
  \/ part = "watch" /\ Init /\ IdleAlerts /\ IdleCache /\ IdleShell
  \/ part = "alerts" /\ Alerts!Init /\ IdleWatch /\ IdleCache /\ IdleShell
  \/ part = "cache" /\ Cache!Init /\ clock = 0 /\ IdleWatch /\ IdleAlerts /\ IdleShell
  \/ part = "shell" /\ Shell!Init /\ clock = 0 /\ faults = 0 /\ IdleWatch /\ IdleAlerts /\ IdleCache

Watching == part = "watch" /\ Next /\ UNCHANGED <<part, alertVars, cacheVars, shellVars>>

\* The scheduler begins a check every interval: in none of them has nobody begun one.
OnSchedule == clock' # clock => \E r \in Replica : now[r] = clock
Alerting ==
  /\ part = "alerts" /\ Alerts!Next /\ OnSchedule
  /\ UNCHANGED <<part, restOfWatch, cacheVars, shellVars>>
Caching  ==
  part = "cache" /\ Cache!Next /\ UNCHANGED <<part, clock, restOfWatch, alertVars, shellVars>>
Stopping == part = "shell" /\ Shell!Next /\ UNCHANGED <<part, vars, alertVars, cacheVars>>

LivenessNext == Watching \/ Alerting \/ Caching \/ Stopping

livenessVars == <<part, vars, alertVars, cacheVars, shellVars>>

\* The fairness of each part, as its module states it.
LivenessFairness ==
  /\ WF_vars(part = "watch" /\ Flush)
  /\ WF_vars(part = "watch" /\ Schedule)
  /\ WF_vars(part = "watch" /\ (Succeed \/ Skip \/ Fail))
  /\ \A r \in Replica : WF_alertVars(part = "alerts" /\ Alerts!Announce(r))
  /\ WF_cacheVars(part = "cache" /\ Cache!Tick)
  /\ WF_cacheVars(part = "cache" /\ Cache!Answers)
  /\ WF_cacheVars(part = "cache" /\ Cache!Polls)
  /\ WF_shellVars(part = "shell" /\ Shell!Tick)
  /\ WF_shellVars(part = "shell" /\ Shell!TimeOut)
  /\ \A q \in Shell!Queue : WF_shellVars(part = "shell" /\ Shell!DrainDeadline(q))

LivenessSpec == LivenessInit /\ [][LivenessNext]_livenessVars /\ LivenessFairness

-----------------------------------------------------------------------------
(* The properties, each of its part: see there for what they say *)

LastsUnfound(k) == part = "watch" /\ k \in stored /\ Violated(k)
ViolationIsFound == \A k \in Key : LastsUnfound(k) ~> (k \in examined \/ ~LastsUnfound(k))

Said(e, kind) == part = "alerts" /\ Alerts!Posts(e, kind) # {}
Lost(e) == part = "alerts" /\ Alerts!Unsaid(e)

\* alerts/index.ts, #loadRecentlyResolved: an episode that was alerted on and has ended is
\* found by a check that begins within the lookback and gets its follow-up, whatever
\* check or claim fails, as long as checks begin on schedule and the lookback outlasts
\* those that fail; what is lost is a follow-up that was claimed and not posted.
FollowedUp ==
  \A e \in Episode :
    (Said(e, "first") /\ status[e] = "closed") ~> (Said(e, "resolution") \/ Lost(e))

Steady == [][part = "cache" => Cache!SteadyStep]_cacheVars

\* Jobs have their grace, unless the shutdown is aborted, and the process its end.
Graceful == [][part = "shell" => Shell!GraceStep]_shellVars
ShutsDown ==
  /\ Graceful
  /\ (part = "shell" /\ Shell!Stopping) ~> Shell!Ended

CatchesUp == \A v \in 1..MaxVersion : (part = "cache" /\ version >= v) ~> served >= v

=============================================================================
