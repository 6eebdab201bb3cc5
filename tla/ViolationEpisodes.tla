------------------------- MODULE ViolationEpisodes -------------------------
(***************************************************************************)
(* The coherence check as a job: src/jobs/coherence-queue.ts runs the two   *)
(* stages of src/coherence/check.ts under a lock and then, after the lock   *)
(* is released, has src/coherence/violations-store.ts write the episodes,   *)
(* one SELECT and one INSERT or UPDATE at a time and in no transaction.     *)
(* What a check finds of the market is an input; the lock is sound here     *)
(* (JobLock.tla is about when it is).                                       *)
(***************************************************************************)
EXTENDS Integers, FiniteSets

CONSTANTS
  Worker,      \* replicas, each running one check at a time
  Key,         \* constraint keys
  Budget,      \* maxConfirmations
  Partial,     \* whether the screen may lack the price of a member
  MaxProfit,   \* bound: the profit of a correcting trade, in steps
  MaxRow,      \* bound: rows of the violations table
  MaxChecks,   \* bound: checks started
  MaxFaults    \* bound: failed checks and failed statements

ASSUME CheckAssumption ==
  /\ IsFiniteSet(Worker) /\ IsFiniteSet(Key)
  /\ {Budget, MaxProfit, MaxRow} \subseteq Nat \ {0}
  /\ Partial \in BOOLEAN /\ {MaxChecks, MaxFaults} \subseteq Nat

VARIABLES
  lock,       \* holder of dutchbook:coherence:lock, or none
  pc,         \* where a worker is
  satisfied,  \* history: constraints its screen evaluated and found to hold
  violated,   \* history: those it found violated
  promoted,   \* constraints it promoted to stage 2
  found,      \* what stage 2 concluded of each: a profit, or Apparent
  at,         \* recordViolations' now
  todo,       \* confirmations it has yet to record
  seen,       \* the id and the row its SELECT returned
  gone,       \* rows it has yet to close
  rows,       \* the violations table
  clock,      \* time, as far as it orders rows
  checks, faults

checkVars  == <<satisfied, violated, promoted, found>>
storeVars  == <<at, todo, seen, gone>>
vars == <<lock, pc, checkVars, storeVars, rows, clock, checks, faults>>

Apparent == 0   \* no profitable trade; a profit above 0 confirms
Free == "free"
Row  == 1..MaxRow
NoRow == [key |-> "none", status |-> "none", reason |-> FALSE, ever |-> FALSE,
          peak |-> 0, opened |-> 0, closed |-> 0]

Exists(r) == rows[r] # NoRow
IsOpen(r) == Exists(r) /\ rows[r].closed = 0
OpenKeys  == {rows[r].key : r \in {s \in Row : IsOpen(s)}}

Init ==
  /\ lock = Free
  /\ pc = [w \in Worker |-> "idle"]
  /\ satisfied = [w \in Worker |-> {}]
  /\ violated = [w \in Worker |-> {}]
  /\ promoted = [w \in Worker |-> {}]
  /\ found = [w \in Worker |-> [k \in Key |-> Apparent]]
  /\ at = [w \in Worker |-> 0]
  /\ todo = [w \in Worker |-> {}]
  /\ seen = [w \in Worker |-> [key |-> "none", id |-> 0, row |-> NoRow]]
  /\ gone = [w \in Worker |-> {}]
  /\ rows = [r \in Row |-> NoRow]
  /\ clock = 0
  /\ checks = 0 /\ faults = 0

-----------------------------------------------------------------------------
(* The check, under the lock *)

\* A job that finds the lock taken completes without running.
Begin(w) ==
  /\ pc[w] = "idle" /\ lock = Free /\ checks < MaxChecks
  /\ lock' = w
  /\ pc' = [pc EXCEPT ![w] = "screening"]
  /\ checks' = checks + 1
  /\ UNCHANGED <<checkVars, storeVars, rows, clock, faults>>

\* Stage 1: every constraint that can be priced is evaluated, and the worst
\* Budget of the violated ones are promoted.
Screen(w) ==
  /\ pc[w] = "screening"
  /\ \E priceable \in IF Partial THEN SUBSET Key ELSE {Key} :
       \E V \in SUBSET priceable :
         /\ satisfied' = [satisfied EXCEPT ![w] = priceable \ V]
         /\ violated' = [violated EXCEPT ![w] = V]
         /\ \E P \in SUBSET V :
              /\ IF Cardinality(V) <= Budget THEN P = V ELSE Cardinality(P) = Budget
              /\ promoted' = [promoted EXCEPT ![w] = P]
  /\ pc' = [pc EXCEPT ![w] = "confirming"]
  /\ UNCHANGED <<lock, found, storeVars, rows, clock, checks, faults>>

\* Stage 2: the live books of the promoted constraints yield a trade or do not.
\* The check returns and withLock releases the lock.
Confirm(w) ==
  /\ pc[w] = "confirming"
  /\ \E f \in [Key -> 0..MaxProfit] :
       /\ \A k \in Key \ promoted[w] : f[k] = Apparent
       /\ found' = [found EXCEPT ![w] = f]
  /\ lock' = Free
  /\ pc' = [pc EXCEPT ![w] = "checked"]
  /\ UNCHANGED <<satisfied, violated, promoted, storeVars, rows, clock, checks, faults>>

\* The check throws: a failed request, the deadline.  The queue retries the
\* job, which starts over.
CheckFails(w) ==
  /\ faults < MaxFaults /\ pc[w] \in {"screening", "confirming"}
  /\ lock' = Free
  /\ pc' = [pc EXCEPT ![w] = "idle"]
  /\ faults' = faults + 1
  /\ UNCHANGED <<checkVars, storeVars, rows, clock, checks>>

-----------------------------------------------------------------------------
(* recordViolations, outside the lock *)

Record(w) ==
  /\ pc[w] = "checked"
  /\ clock' = clock + 1
  /\ at' = [at EXCEPT ![w] = clock + 1]
  /\ todo' = [todo EXCEPT ![w] = promoted[w]]
  /\ pc' = [pc EXCEPT ![w] = "recording"]
  /\ UNCHANGED <<lock, checkVars, seen, gone, rows, checks, faults>>

\* SELECT the open row of the next confirmation's key.
Select(w, k) ==
  /\ pc[w] = "recording" /\ k \in todo[w]
  /\ todo' = [todo EXCEPT ![w] = @ \ {k}]
  /\ \E r \in Row \cup {0} :
       /\ IF r = 0 THEN k \notin OpenKeys ELSE IsOpen(r) /\ rows[r].key = k
       /\ seen' = [seen EXCEPT ![w] =
            [key |-> k, id |-> r, row |-> IF r = 0 THEN NoRow ELSE rows[r]]]
  /\ pc' = [pc EXCEPT ![w] = "writing"]
  /\ UNCHANGED <<lock, checkVars, at, gone, rows, clock, checks, faults>>

Confirmed(w) == found[w][seen[w].key] > 0

\* Variant: without the index a second open row is accepted.
InsertUnindexed(w) ==
  /\ pc[w] = "writing" /\ seen[w].id = 0
  /\ pc' = [pc EXCEPT ![w] = "recording"]
  /\ \E r \in Row :
       /\ ~Exists(r) /\ \A s \in 1..(r - 1) : Exists(s)
       /\ rows' = [rows EXCEPT ![r] =
            [key |-> seen[w].key, status |-> "apparent", reason |-> TRUE, ever |-> FALSE,
             peak |-> 0, opened |-> at[w], closed |-> 0]]
  /\ UNCHANGED <<lock, checkVars, storeVars, clock, checks, faults>>

\* INSERT: the partial unique index rejects a second open row for the key, and
\* the job fails.
Insert(w) ==
  /\ pc[w] = "writing" /\ seen[w].id = 0
  /\ IF seen[w].key \in OpenKeys
       THEN pc' = [pc EXCEPT ![w] = "idle"] /\ UNCHANGED rows
       ELSE /\ pc' = [pc EXCEPT ![w] = "recording"]
            /\ \E r \in Row :
                 /\ ~Exists(r) /\ \A s \in 1..(r - 1) : Exists(s)
                 /\ rows' = [rows EXCEPT ![r] =
                      [key |-> seen[w].key,
                       status |-> IF Confirmed(w) THEN "confirmed" ELSE "apparent",
                       reason |-> ~Confirmed(w), ever |-> Confirmed(w),
                       peak |-> found[w][seen[w].key], opened |-> at[w], closed |-> 0]]
  /\ UNCHANGED <<lock, checkVars, storeVars, clock, checks, faults>>

\* Variant: confirmation follows the latest check.
UpdateLatest(w) ==
  /\ pc[w] = "writing" /\ seen[w].id # 0
  /\ pc' = [pc EXCEPT ![w] = "recording"]
  /\ LET old == seen[w].row IN
     rows' = [rows EXCEPT ![seen[w].id] = [@ EXCEPT
       !.status = IF Confirmed(w) THEN "confirmed" ELSE old.status,
       !.reason = ~Confirmed(w), !.ever = Confirmed(w),
       !.peak = IF found[w][seen[w].key] > old.peak THEN found[w][seen[w].key]
               ELSE rows[seen[w].id].peak]]
  /\ UNCHANGED <<lock, checkVars, storeVars, clock, checks, faults>>

\* UPDATE by id, with values computed from the row the SELECT saw.
Update(w) ==
  /\ pc[w] = "writing" /\ seen[w].id # 0
  /\ pc' = [pc EXCEPT ![w] = "recording"]
  /\ LET old == seen[w].row IN
     rows' = [rows EXCEPT ![seen[w].id] = [@ EXCEPT
       !.status = IF Confirmed(w) THEN "confirmed" ELSE old.status,
       !.reason = ~Confirmed(w), !.ever = old.ever \/ Confirmed(w),
       !.peak = IF found[w][seen[w].key] > old.peak THEN found[w][seen[w].key]
               ELSE rows[seen[w].id].peak]]
  /\ UNCHANGED <<lock, checkVars, storeVars, clock, checks, faults>>

-----------------------------------------------------------------------------
(* resolveDisappeared *)

\* Variant: only episodes that are not confirmed are looked at.
FindGoneUnconfirmed(w) ==
  /\ pc[w] = "recording" /\ todo[w] = {}
  /\ gone' = [gone EXCEPT ![w] =
       {r \in Row : IsOpen(r) /\ ~rows[r].ever /\ rows[r].key \notin promoted[w]}]
  /\ pc' = [pc EXCEPT ![w] = "closing"]
  /\ UNCHANGED <<lock, checkVars, at, todo, seen, rows, clock, checks, faults>>

\* Variant: every open episode is closed that this check did not confirm.
FindGoneUnprofitable(w) ==
  /\ pc[w] = "recording" /\ todo[w] = {}
  /\ gone' = [gone EXCEPT ![w] = {r \in Row : IsOpen(r) /\ found[w][rows[r].key] = Apparent}]
  /\ pc' = [pc EXCEPT ![w] = "closing"]
  /\ UNCHANGED <<lock, checkVars, at, todo, seen, rows, clock, checks, faults>>

\* stillViolating is the keys of the confirmations.
FindGone(w) ==
  /\ pc[w] = "recording" /\ todo[w] = {}
  /\ gone' = [gone EXCEPT ![w] = {r \in Row : IsOpen(r) /\ rows[r].key \notin promoted[w]}]
  /\ pc' = [pc EXCEPT ![w] = "closing"]
  /\ UNCHANGED <<lock, checkVars, at, todo, seen, rows, clock, checks, faults>>

CloseRow(w, r) ==
  /\ pc[w] = "closing" /\ r \in gone[w]
  /\ gone' = [gone EXCEPT ![w] = @ \ {r}]
  /\ rows' = [rows EXCEPT ![r].status = "closed", ![r].closed = at[w]]
  /\ UNCHANGED <<lock, pc, checkVars, at, todo, seen, clock, checks, faults>>

\* The episodes are written; the alerts go out next.
Recorded(w) ==
  /\ pc[w] = "closing" /\ gone[w] = {}
  /\ pc' = [pc EXCEPT ![w] = "announcing"]
  /\ UNCHANGED <<lock, checkVars, storeVars, rows, clock, checks, faults>>

Finish(w) ==
  /\ pc[w] = "announcing"
  /\ pc' = [pc EXCEPT ![w] = "idle"]
  /\ UNCHANGED <<lock, checkVars, storeVars, rows, clock, checks, faults>>

\* A statement fails, or the process dies: what was written stays written.
RecordFails(w) ==
  /\ faults < MaxFaults /\ pc[w] \in {"checked", "recording", "writing", "closing"}
  /\ pc' = [pc EXCEPT ![w] = "idle"]
  /\ faults' = faults + 1
  /\ UNCHANGED <<lock, checkVars, storeVars, rows, clock, checks>>

-----------------------------------------------------------------------------
Step(w) ==
  \/ Begin(w) \/ Screen(w) \/ Confirm(w) \/ CheckFails(w) \/ Record(w)
  \/ (\E k \in Key : Select(w, k)) \/ Insert(w) \/ Update(w)
  \/ FindGone(w) \/ (\E r \in Row : CloseRow(w, r)) \/ Recorded(w)
  \/ Finish(w) \/ RecordFails(w)

Next == \E w \in Worker : Step(w)

Spec == Init /\ [][Next]_vars

-----------------------------------------------------------------------------
(* Properties *)

RowType == [key : Key, status : {"apparent", "confirmed", "closed"}, reason : BOOLEAN,
            ever : BOOLEAN, peak : 0..MaxProfit, opened : Nat, closed : Nat]

\* Every row and every worker's copy of one has the columns' types.
TypeOK ==
  /\ lock \in Worker \cup {Free}
  /\ pc \in [Worker -> {"idle", "screening", "confirming", "checked", "recording",
                        "writing", "closing", "announcing"}]
  /\ satisfied \in [Worker -> SUBSET Key]
  /\ violated \in [Worker -> SUBSET Key]
  /\ promoted \in [Worker -> SUBSET Key]
  /\ found \in [Worker -> [Key -> 0..MaxProfit]]
  /\ at \in [Worker -> Nat]
  /\ todo \in [Worker -> SUBSET Key]
  /\ seen \in [Worker -> [key : Key \cup {"none"}, id : Row \cup {0}, row : RowType \cup {NoRow}]]
  /\ gone \in [Worker -> SUBSET Row]
  /\ rows \in [Row -> RowType \cup {NoRow}]
  /\ {clock, checks, faults} \subseteq Nat

OneReplica == \A v, w \in DOMAIN pc : v = w

\* When a replica that is alone has recorded its check, whatever failed before, every
\* open episode is of a constraint the check found violated, and says at least what
\* stage 2 found of it: confirmed if there was a trade, a peak no lower than its profit.
\* All that was violated has an open episode if stage 2 had the budget for it; if not,
\* just as many as the budget have, and the others have none.
Reflects(w, r) ==
  LET profit == found[w][rows[r].key] IN (profit > 0 => rows[r].ever) /\ rows[r].peak >= profit

OpenIsViolated ==
  OneReplica =>
    \A w \in Worker : pc[w] = "announcing" =>
      /\ OpenKeys \subseteq violated[w]
      /\ \A r \in Row : IsOpen(r) => Reflects(w, r)
      /\ IF Cardinality(violated[w]) <= Budget THEN OpenKeys = violated[w]
                                               ELSE Cardinality(OpenKeys) = Budget

\* An episode is closed only by a check that evaluated its constraint and found
\* it to hold: not by one that never looked at it (the comment on stillViolating).
ClosedBecauseSatisfied ==
  [][\A w \in Worker, r \in Row :
       CloseRow(w, r) => rows[r].key \in satisfied[w]]_vars

\* So it is of a replica that is alone if the check examined every constraint: it
\* priced them all and its budget sufficed for the violated ones.
ExaminedAll(w) == satisfied[w] \cup promoted[w] = Key
ClosesOnlySatisfied ==
  \A w \in Worker, r \in Row :
    ExaminedAll(w) /\ CloseRow(w, r) => rows[r].key \in satisfied[w]
CompleteCheckCloses == [][OneReplica => ClosesOnlySatisfied]_vars

\* The index's promise: two checkers never fork one violation into two.
OneOpenEpisode ==
  \A r, s \in Row : IsOpen(r) /\ IsOpen(s) /\ rows[r].key = rows[s].key => r = s

\* The table as its readers see it.
Shown(r) == [id |-> r, ever |-> rows[r].ever, peak |-> rows[r].peak]
OpenEpisode(k) ==
  IF k \in OpenKeys THEN Shown(CHOOSE r \in Row : IsOpen(r) /\ rows[r].key = k)
  ELSE [id |-> 0, ever |-> FALSE, peak |-> 0]

ClosedEpisodes == {Shown(r) : r \in {s \in Row : Exists(s) /\ ~IsOpen(s)}}

Lifecycle == INSTANCE EpisodeLifecycle WITH
  Id <- Row,
  open <- [k \in Key |-> OpenEpisode(k)],
  done <- ClosedEpisodes

\* The table of one replica, with failures at any statement, is a run of the lifecycle.
EpisodeLifecycleHolds ==
  Lifecycle!Init /\ [][OneReplica => Lifecycle!Next]_rows

=============================================================================
