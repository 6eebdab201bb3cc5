--------------------------- MODULE AlertDelivery ---------------------------
(***************************************************************************)
(* Alerting on confirmed episodes: src/alerts/index.ts loads what a check   *)
(* left in the violations table, src/alerts/violations.ts decides, claims,  *)
(* posts and records, src/alerts/dedupe.ts is the decision and              *)
(* src/alerts/store.ts the alert_deliveries table.  Every await is a point  *)
(* where another replica may run or the process may die.                    *)
(***************************************************************************)
EXTENDS Integers, Sequences

CONSTANTS
  Replica, Episode,
  Cooldown, Factor, Floor, Lookback,  \* the ALERT_ settings
  MaxEdge,    \* bound: a net edge, in steps
  MaxTime,    \* bound: time
  MaxFaults   \* bound: failed posts and statements, deaths of a process

ASSUME AlertAssumption ==
  /\ {Cooldown, Factor, Floor, Lookback, MaxEdge, MaxTime, MaxFaults} \subseteq Nat
  /\ Factor >= 1 /\ Floor <= MaxEdge

VARIABLES
  clock,
  status,    \* of an episode: none, open and confirmed, or closed
  edge,      \* the net edge of its best trade
  closedAt,
  delivery,  \* the alert_deliveries row of an episode
  posted,    \* history: the messages in the channel about it, in order
  pc,        \* per replica: where its afterCheck is
  now,       \* afterCheck's now
  todo,      \* confirmed episodes it has yet to alert on
  quoted,    \* their edges, as loaded
  ended,     \* resolved episodes it has yet to follow up
  known,     \* the deliveries it loaded
  current,   \* the episode it is posting about
  excused,   \* history: episodes whose next escalation may come early
  faults

world == <<clock, status, edge, closedAt>>
run   == <<now, todo, quoted, ended, known, current>>
vars  == <<world, delivery, posted, pc, run, excused, faults>>

None == [sentAt |-> -1, value |-> 0, resolved |-> FALSE, message |-> FALSE]
Nothing == "nothing"

Init ==
  /\ clock = 0
  /\ status = [e \in Episode |-> "none"]
  /\ edge = [e \in Episode |-> 0]
  /\ closedAt = [e \in Episode |-> 0]
  /\ delivery = [e \in Episode |-> None]
  /\ posted = [e \in Episode |-> <<>>]
  /\ pc = [r \in Replica |-> "idle"]
  /\ now = [r \in Replica |-> 0]
  /\ todo = [r \in Replica |-> {}]
  /\ quoted = [r \in Replica |-> [e \in Episode |-> 0]]
  /\ ended = [r \in Replica |-> {}]
  /\ known = [r \in Replica |-> [e \in Episode |-> None]]
  /\ current = [r \in Replica |-> Nothing]
  /\ excused = {}
  /\ faults = 0

Tick ==
  /\ clock < MaxTime
  /\ clock' = clock + 1
  /\ UNCHANGED <<status, edge, closedAt, delivery, posted, pc, run, excused, faults>>

\* A replica that is not announcing may be recording a check: an episode gets a
\* better trade, whose edge per unit may be higher or lower, or closes.
Recording == \E r \in Replica : pc[r] = "idle"

Observe(e, v) ==
  /\ Recording /\ status[e] # "closed" /\ (status[e] = "open" => v # edge[e])
  /\ status' = [status EXCEPT ![e] = "open"]
  /\ edge' = [edge EXCEPT ![e] = v]
  /\ UNCHANGED <<clock, closedAt, delivery, posted, pc, run, excused, faults>>

Resolve(e) ==
  /\ Recording /\ status[e] = "open"
  /\ status' = [status EXCEPT ![e] = "closed"]
  /\ closedAt' = [closedAt EXCEPT ![e] = clock]
  /\ UNCHANGED <<clock, edge, delivery, posted, pc, run, excused, faults>>

-----------------------------------------------------------------------------
(* dedupe.ts *)

MeetsThreshold(v) == v >= Floor

\* Variant: growth alone is enough, however soon.
DecideAtOnce(state, value, at) ==
  IF state = None THEN "send"
  ELSE IF ~state.resolved /\ state.value > 0 /\ value >= state.value * Factor
       THEN "escalate"
       ELSE "suppress"

Decide(state, value, at) ==
  IF state = None THEN "send"
  ELSE IF /\ ~state.resolved
          /\ at - state.sentAt >= Cooldown
          /\ state.value > 0 /\ value >= state.value * Factor
       THEN "escalate"
       ELSE "suppress"

-----------------------------------------------------------------------------
(* afterCheck *)

\* The open episodes of the constraints this check confirmed.
LoadConfirmed(r) ==
  /\ pc[r] = "idle"
  /\ \E C \in SUBSET {e \in Episode : status[e] = "open"} :
       todo' = [todo EXCEPT ![r] = {e \in C : MeetsThreshold(edge[e])}]
  /\ quoted' = [quoted EXCEPT ![r] = edge]
  /\ now' = [now EXCEPT ![r] = clock]
  /\ pc' = [pc EXCEPT ![r] = "loading"]
  /\ UNCHANGED <<world, delivery, posted, ended, known, current, excused, faults>>

\* Variant: only what has closed since the last instant is looked for.
LoadJustResolved(r) ==
  /\ pc[r] = "loading"
  /\ ended' = [ended EXCEPT ![r] =
       {e \in Episode : /\ status[e] = "closed" /\ closedAt[e] = now[r]
                        /\ delivery[e] # None /\ ~delivery[e].resolved}]
  /\ pc' = [pc EXCEPT ![r] = "loaded"]
  /\ UNCHANGED <<world, delivery, posted, now, todo, quoted, known, current, excused, faults>>

\* Episodes that closed within the lookback, were alerted on, and are not yet
\* followed up.
LoadResolved(r) ==
  /\ pc[r] = "loading"
  /\ ended' = [ended EXCEPT ![r] =
       {e \in Episode : /\ status[e] = "closed" /\ closedAt[e] >= now[r] - Lookback
                        /\ delivery[e] # None /\ ~delivery[e].resolved}]
  /\ pc' = [pc EXCEPT ![r] = "loaded"]
  /\ UNCHANGED <<world, delivery, posted, now, todo, quoted, known, current, excused, faults>>

\* A replica that has loaded the deliveries and not yet done with them.
Announcing(s) == pc[s] \notin {"idle", "loading", "loaded"}

LoadDeliveries(r) ==
  /\ pc[r] = "loaded"
  /\ known' = [known EXCEPT ![r] = delivery]
  /\ pc' = [pc EXCEPT ![r] = "alerting"]
  /\ excused' = IF \E s \in Replica \ {r} : Announcing(s) THEN Episode ELSE excused
  /\ UNCHANGED <<world, delivery, posted, now, todo, quoted, ended, current, faults>>

\* What transport.send may come to: a message taken, refused, taken though the
\* answer was lost, or for that reason sent and taken twice.
Outcomes ==
  {[copies |-> 1, ok |-> TRUE]}
    \cup (IF faults < MaxFaults
            THEN {[copies |-> 0, ok |-> FALSE], [copies |-> 1, ok |-> FALSE],
                  [copies |-> 2, ok |-> TRUE]}
            ELSE {})

\* r posts a message about e, and is at good or at bad afterwards.
Post(r, e, kind, good, bad) ==
  \E o \in Outcomes :
    /\ posted' = [posted EXCEPT ![e] =
         @ \o [i \in 1..o.copies |-> [kind |-> kind, value |-> quoted[r][e], at |-> now[r],
                                      copy |-> i > 1]]]
    /\ pc' = [pc EXCEPT ![r] = IF o.ok THEN good ELSE bad]
    /\ faults' = IF o = [copies |-> 1, ok |-> TRUE] THEN faults ELSE faults + 1

Decision(r, e) == Decide(known[r][e], quoted[r][e], now[r])

Suppress(r, e) ==
  /\ pc[r] = "alerting" /\ e \in todo[r] /\ Decision(r, e) = "suppress"
  /\ todo' = [todo EXCEPT ![r] = @ \ {e}]
  /\ UNCHANGED <<world, delivery, posted, pc, now, quoted, ended, known, current, excused, faults>>

\* Variant: the row is checked when the deliveries are loaded, not on insert.
ClaimUnconditionally(r, e) ==
  /\ pc[r] = "alerting" /\ e \in todo[r] /\ Decision(r, e) = "send"
  /\ todo' = [todo EXCEPT ![r] = @ \ {e}]
  /\ delivery' = [delivery EXCEPT ![e] =
       [sentAt |-> now[r], value |-> quoted[r][e], resolved |-> FALSE, message |-> FALSE]]
  /\ pc' = [pc EXCEPT ![r] = "sending"]
  /\ current' = [current EXCEPT ![r] = e]
  /\ UNCHANGED <<world, posted, now, quoted, ended, known, excused, faults>>

\* INSERT ... ON CONFLICT DO NOTHING: the loser stays quiet.
Claim(r, e) ==
  /\ pc[r] = "alerting" /\ e \in todo[r] /\ Decision(r, e) = "send"
  /\ todo' = [todo EXCEPT ![r] = @ \ {e}]
  /\ IF delivery[e] = None
       THEN /\ delivery' = [delivery EXCEPT ![e] = [sentAt |-> now[r],
                 value |-> quoted[r][e], resolved |-> FALSE, message |-> FALSE]]
            /\ pc' = [pc EXCEPT ![r] = "sending"]
            /\ current' = [current EXCEPT ![r] = e]
       ELSE UNCHANGED <<delivery, pc, current>>
  /\ UNCHANGED <<world, posted, now, quoted, ended, known, excused, faults>>

Send(r) ==
  /\ pc[r] = "sending"
  /\ Post(r, current[r], "first", "naming", "alerting")
  /\ UNCHANGED <<world, delivery, run, excused>>

RecordMessageId(r) ==
  /\ pc[r] = "naming"
  /\ delivery' = [delivery EXCEPT ![current[r]].message = TRUE]
  /\ pc' = [pc EXCEPT ![r] = "alerting"]
  /\ UNCHANGED <<world, posted, run, excused, faults>>

\* An escalation is posted first and recorded afterwards.
Escalate(r, e) ==
  /\ pc[r] = "alerting" /\ e \in todo[r] /\ Decision(r, e) = "escalate"
  /\ todo' = [todo EXCEPT ![r] = @ \ {e}]
  /\ current' = [current EXCEPT ![r] = e]
  /\ Post(r, e, "escalation", "resending", "alerting")
  /\ excused' = IF posted' # posted /\ pc'[r] = "alerting" THEN excused \cup {e} ELSE excused
  /\ UNCHANGED <<world, delivery, now, quoted, ended, known>>

RecordResend(r) ==
  /\ pc[r] = "resending"
  /\ delivery' = [delivery EXCEPT ![current[r]].sentAt = now[r],
                                  ![current[r]].value = quoted[r][current[r]]]
  /\ pc' = [pc EXCEPT ![r] = "alerting"]
  /\ UNCHANGED <<world, posted, run, excused, faults>>

\* alertResolvedViolations loads the deliveries again.
LoadEnded(r) ==
  /\ pc[r] = "alerting" /\ todo[r] = {}
  /\ known' = [known EXCEPT ![r] = delivery]
  /\ pc' = [pc EXCEPT ![r] = "following"]
  /\ UNCHANGED <<world, delivery, posted, now, todo, quoted, ended, current, excused, faults>>

\* UPDATE ... WHERE resolved_notified_at IS NULL, if the row loaded was unnotified.
ClaimResolution(r, e) ==
  /\ pc[r] = "following" /\ e \in ended[r]
  /\ ended' = [ended EXCEPT ![r] = @ \ {e}]
  /\ IF known[r][e] = None \/ known[r][e].resolved \/ delivery[e].resolved
       THEN UNCHANGED <<delivery, pc, current>>
       ELSE /\ delivery' = [delivery EXCEPT ![e].resolved = TRUE]
            /\ pc' = [pc EXCEPT ![r] = "resolving"]
            /\ current' = [current EXCEPT ![r] = e]
  /\ UNCHANGED <<world, posted, now, todo, quoted, known, excused, faults>>

PostResolution(r) ==
  /\ pc[r] = "resolving"
  /\ Post(r, current[r], "resolution", "following", "following")
  /\ UNCHANGED <<world, delivery, run, excused>>

Done(r) ==
  /\ pc[r] = "following" /\ ended[r] = {}
  /\ pc' = [pc EXCEPT ![r] = "idle"]
  /\ UNCHANGED <<world, delivery, posted, run, excused, faults>>

\* What is excused when r stops: the episode whose escalation it has not recorded.
Unrecorded(r) == IF pc[r] = "resending" THEN excused \cup {current[r]} ELSE excused

\* A statement inside the loop fails: the violation counts as failed and the
\* loop goes on.
StatementFails(r) ==
  /\ faults < MaxFaults /\ pc[r] \in {"naming", "resending"}
  /\ pc' = [pc EXCEPT ![r] = "alerting"]
  /\ excused' = Unrecorded(r)
  /\ faults' = faults + 1
  /\ UNCHANGED <<world, delivery, posted, run>>

\* The claim itself fails: the violation counts as failed, and nothing is said.
ClaimFails(r) ==
  /\ faults < MaxFaults
  /\ \/ /\ pc[r] = "alerting"
        /\ \E e \in todo[r] : /\ Decision(r, e) = "send"
                             /\ todo' = [todo EXCEPT ![r] = @ \ {e}]
        /\ UNCHANGED ended
     \/ /\ pc[r] = "following"
        /\ \E e \in ended[r] : ended' = [ended EXCEPT ![r] = @ \ {e}]
        /\ UNCHANGED todo
  /\ faults' = faults + 1
  /\ UNCHANGED <<world, delivery, posted, pc, now, quoted, known, current, excused>>

\* The process dies, or a load throws and the job logs it.
Die(r) ==
  /\ faults < MaxFaults /\ pc[r] # "idle"
  /\ pc' = [pc EXCEPT ![r] = "idle"]
  /\ excused' = Unrecorded(r)
  /\ faults' = faults + 1
  /\ UNCHANGED <<world, delivery, posted, run>>

-----------------------------------------------------------------------------
Announce(r) ==
  \/ LoadConfirmed(r) \/ LoadResolved(r) \/ LoadDeliveries(r)
  \/ (\E e \in Episode : Suppress(r, e) \/ Claim(r, e) \/ Escalate(r, e))
  \/ Send(r) \/ RecordMessageId(r) \/ RecordResend(r) \/ LoadEnded(r)
  \/ (\E e \in Episode : ClaimResolution(r, e)) \/ PostResolution(r) \/ Done(r)

Next ==
  \/ Tick
  \/ \E e \in Episode : Resolve(e) \/ \E v \in 0..MaxEdge : Observe(e, v)
  \/ \E r \in Replica : Announce(r) \/ StatementFails(r) \/ ClaimFails(r) \/ Die(r)

Spec == Init /\ [][Next]_vars

\* Checks are scheduled for ever and a replica's event loop runs.
FairSpec == Spec /\ \A r \in Replica : WF_vars(Announce(r))

-----------------------------------------------------------------------------
(* Properties *)

Delivery == [sentAt : 0..MaxTime, value : 0..MaxEdge, resolved : BOOLEAN, message : BOOLEAN]
Message == [kind : {"first", "escalation", "resolution"}, value : 0..MaxEdge, at : 0..MaxTime,
            copy : BOOLEAN]

\* Rows, messages and each replica's copies of them have the columns' types: no
\* statement writes to a row that is not there.
TypeOK ==
  /\ clock \in 0..MaxTime /\ faults \in Nat
  /\ status \in [Episode -> {"none", "open", "closed"}]
  /\ edge \in [Episode -> 0..MaxEdge]
  /\ closedAt \in [Episode -> 0..MaxTime]
  /\ delivery \in [Episode -> Delivery \cup {None}]
  /\ posted \in [Episode -> Seq(Message)]
  /\ pc \in [Replica -> {"idle", "loading", "loaded", "alerting", "sending", "naming",
                         "resending", "following", "resolving"}]
  /\ now \in [Replica -> 0..MaxTime]
  /\ todo \in [Replica -> SUBSET Episode]
  /\ quoted \in [Replica -> [Episode -> 0..MaxEdge]]
  /\ ended \in [Replica -> SUBSET Episode]
  /\ known \in [Replica -> [Episode -> Delivery \cup {None}]]
  /\ current \in [Replica -> Episode \cup {Nothing}]
  /\ excused \in SUBSET Episode

\* The messages about e of one kind, but not the transport's own repetitions.
Posts(e, kind) == {i \in DOMAIN posted[e] : posted[e][i].kind = kind /\ ~posted[e][i].copy}

\* One alert per episode and one follow-up, whichever replicas see it and
\* whatever fails or dies on the way: violation_key is the primary key of
\* alert_deliveries, so a claim is won once.
OneAnnouncement ==
  \A e \in Episode, kind \in {"first", "resolution"} : \A i, j \in Posts(e, kind) : i = j

\* An escalation comes a cooldown after the message before it and quotes at
\* least Factor times what that message said.
Earned(e) ==
  \A i \in Posts(e, "escalation") :
    i > 1 => /\ posted[e][i].at >= posted[e][i - 1].at + Cooldown
             /\ posted[e][i].value >= posted[e][i - 1].value * Factor

EscalationIsEarned == \A e \in Episode : Earned(e)

\* That is so of every episode, whatever fails or dies, unless a replica loaded the
\* deliveries while another was still at work on its own copy, or an escalation was
\* posted and not recorded.
LoneEscalationIsEarned == \A e \in Episode \ excused : Earned(e)

\* The follow-up is claimed, and will not be said: whoever claimed it died before it was
\* posted, or the post failed.
Unsaid(e) ==
  /\ delivery[e].resolved /\ Posts(e, "resolution") = {}
  /\ \A r \in Replica : ~(pc[r] = "resolving" /\ current[r] = e)

=============================================================================
