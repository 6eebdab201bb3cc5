--------------------------- MODULE CatalogIngest ---------------------------
(***************************************************************************)
(* The catalog ingest: src/jobs/ingest-catalog.ts crawls the venue's events *)
(* page by page (src/polymarket/gamma.ts, #iterate), applies them in        *)
(* transactions, records what changed and flags what a complete crawl did   *)
(* not return.  src/jobs/catalog-queue.ts runs it as a job, under a lock and *)
(* a deadline, with retries and a dead-letter queue;                        *)
(* src/jobs/trigger-ingest.ts can also run it in a process of its own.      *)
(***************************************************************************)
EXTENDS Integers, Sequences, FiniteSets

CONSTANTS
  Market, Event,   \* events are numbered in the order of the venue's keyset
  Field, Value,    \* the hashed fields of a market and what they may say
  Job, Runner,     \* jobs of the queue; processes that can run an ingest
  Inline,          \* the runners started by hand, with --inline
  BatchSize, Attempts,
  MaxTime, MaxEdits, MaxFaults   \* bounds

VARIABLES
  clock,
  listed, content,   \* the venue: the markets under each event, and what they say
  edits,
  row,        \* the markets table: the row of each market stored
  revisions,  \* market_revisions of a market, in order
  version,    \* of the hash's definition, as deployed
  first,      \* history: what a row said when it was created
  jobs,       \* the queue
  letters,    \* of a job: its dead letter, none, being added, kept or lost
  lock,
  pc,         \* of a runner: where its ingest is
  run,        \* and what that ingest keeps
  latest,     \* the last time an ingest began or stamped a batch
  collided,   \* history: two ingests have run at once
  faults

venue == <<listed, content, edits>>
table == <<row, revisions, first>>
queue == <<jobs, letters, lock>>
vars  == <<clock, venue, table, version, queue, pc, run, latest, collided, faults>>

Content == [Field -> Value]
Nobody  == "nobody"
None    == -1
NoRows  == [m \in {} |-> None]

\* An ingest: the job it runs, when it started, the last page's cursor, the
\* batch being gathered (its markets, its events, how many markets it counts),
\* whether the pages have ended, the batch's time stamp, the rows its
\* transaction loaded, its signal, and two histories: what the crawl was given,
\* and that no other ingest ran at any time during it.
NoRun == [job |-> Nobody, startedAt |-> 0, cursor |-> 0, batch |-> NoRows, events |-> {},
          pending |-> 0, ended |-> FALSE, seenAt |-> 0, before |-> NoRows,
          aborted |-> FALSE, returned |-> {}, alone |-> TRUE]

Running(r) == pc[r] # "idle"

Init ==
  /\ clock = 1
  /\ listed \in [Event -> SUBSET Market]
  /\ \A e, f \in Event : e # f => listed[e] \cap listed[f] = {}
  /\ content \in [Market -> Content]
  /\ edits = 0
  /\ row = NoRows
  /\ revisions = [m \in Market |-> <<>>]
  /\ first = NoRows
  /\ version = 1
  /\ jobs = [j \in Job |-> [state |-> "none", attempts |-> 0, stalls |-> 0]]
  /\ letters = [j \in Job |-> "none"]
  /\ lock = Nobody
  /\ pc = [r \in Runner |-> "idle"]
  /\ run = [r \in Runner |-> NoRun]
  /\ latest = 0
  /\ collided = FALSE
  /\ faults = 0

-----------------------------------------------------------------------------
(* The environment *)

Tick ==
  /\ clock < MaxTime
  /\ clock' = clock + 1
  /\ UNCHANGED <<venue, table, version, queue, pc, run, latest, collided, faults>>

\* The venue rewords a market in place, stops listing it, or lists it under an
\* event (again).
Edit(m) ==
  /\ edits < MaxEdits
  /\ edits' = edits + 1
  /\ \/ \E c \in Content \ {content[m]} : content' = [content EXCEPT ![m] = c]
        /\ UNCHANGED listed
     \/ \E e \in Event \cup {0} :
          /\ listed' = [f \in Event |-> IF f = e THEN listed[f] \cup {m} ELSE listed[f] \ {m}]
          /\ listed' # listed
          /\ UNCHANGED content
  /\ UNCHANGED <<clock, table, version, queue, pc, run, latest, collided, faults>>

\* A release changes what the content hash is computed over.
Deploy ==
  /\ version = 1 /\ edits < MaxEdits
  /\ version' = 2
  /\ edits' = edits + 1
  /\ \A r \in Runner : ~Running(r)
  /\ UNCHANGED <<clock, listed, content, table, queue, pc, run, latest, collided, faults>>

-----------------------------------------------------------------------------
(* The queue: catalog-queue.ts and trigger-ingest.ts *)

\* ingestCatalog begins: everything it keeps is fresh.  Polling, start-up and
\* backoff take longer than a tick of the clock, so it begins later than what
\* was stamped before.
Begin(r, j) ==
  /\ ~Running(r) /\ latest < clock
  /\ latest' = clock
  /\ pc' = [pc EXCEPT ![r] = "crawling"]
  /\ LET others == {s \in Runner \ {r} : Running(s)} IN
       /\ run' = [s \in Runner |->
            IF s = r THEN [NoRun EXCEPT !.job = j, !.startedAt = clock, !.alone = others = {}]
            ELSE [run[s] EXCEPT !.alone = @ /\ s \notin others]]
       /\ collided' = (collided \/ others # {})

\* The scheduler, an operator or job:ingest adds a job.
Enqueue(j) ==
  /\ jobs[j].state = "none"
  /\ jobs' = [jobs EXCEPT ![j].state = "waiting"]
  /\ UNCHANGED <<clock, venue, table, version, letters, lock, pc, run, latest, collided, faults>>

\* A worker takes a job, and it ends up in a state.
Taken(j, state) == [jobs EXCEPT ![j].state = state, ![j].attempts = @ + 1]

\* A worker takes a job and the lock.
RunJob(r, j) ==
  /\ r \notin Inline /\ jobs[j].state = "waiting" /\ lock = Nobody
  /\ jobs' = Taken(j, "active")
  /\ lock' = r
  /\ Begin(r, j)
  /\ UNCHANGED <<clock, venue, table, version, letters, faults>>

\* The lock is held: the job completes without having run, which is no failure.
SkipJob(r, j) ==
  /\ r \notin Inline /\ ~Running(r) /\ jobs[j].state = "waiting" /\ lock # Nobody
  /\ jobs' = Taken(j, "skipped")
  /\ UNCHANGED <<clock, venue, table, version, letters, lock, pc, run, latest, collided, faults>>

\* runInline calls ingestCatalog and nothing else.
RunInline(r) ==
  /\ r \in Inline
  /\ Begin(r, Nobody)
  /\ UNCHANGED <<clock, venue, table, version, queue, faults>>

\* The ingest is over, and what it kept is gone.
End(r) ==
  /\ pc' = [pc EXCEPT ![r] = "idle"]
  /\ run' = [run EXCEPT ![r] = NoRun]

Released(r) == IF lock = r THEN Nobody ELSE lock

\* withLock releases; the job completes.
Succeed(r) ==
  /\ pc[r] = "swept"
  /\ jobs' = IF r \in Inline THEN jobs ELSE [jobs EXCEPT ![run[r].job].state = "completed"]
  /\ lock' = Released(r)
  /\ End(r)
  /\ UNCHANGED <<clock, venue, table, version, letters, latest, collided, faults>>

\* Variant: one attempt more is waited for.
ExhaustedLate(j) == jobs[j].attempts > Attempts

Exhausted(j) == jobs[j].attempts >= Attempts

\* The error reaches the worker, and BullMQ tries the job again or fails it for
\* good; the failed handler has the letter of a job it takes to be exhausted added, and
\* does not wait for it.
Fail(r) ==
  /\ pc[r] = "failed"
  /\ IF r \in Inline THEN UNCHANGED <<jobs, letters>>
     ELSE LET j == run[r].job IN
          /\ jobs' = [jobs EXCEPT ![j].state = IF jobs[j].attempts >= Attempts
                                                 THEN "failed" ELSE "waiting"]
          /\ letters' = IF Exhausted(j) THEN [letters EXCEPT ![j] = "adding"] ELSE letters
  /\ lock' = Released(r)
  /\ End(r)
  /\ UNCHANGED <<clock, venue, table, version, latest, collided, faults>>

Fault == /\ faults < MaxFaults
         /\ faults' = faults + 1

Added(j, letter) ==
  /\ letters[j] = "adding"
  /\ letters' = [letters EXCEPT ![j] = letter]
  /\ UNCHANGED <<clock, venue, table, version, jobs, lock, pc, run, latest, collided>>

KeepLetter(j) == Added(j, "kept") /\ UNCHANGED faults

\* The error of the add is only logged, and a process that dies tells nobody.
LoseLetter(j) == Fault /\ Added(j, "lost")

\* The deadline of the job, or its lock taken to be lost: the signal is aborted.
\* A lock that is lost may be had by another.
Abort(r) ==
  /\ Fault /\ Running(r) /\ r \notin Inline /\ ~run[r].aborted
  /\ run' = [run EXCEPT ![r].aborted = TRUE]
  /\ lock' \in {lock, Released(r)}
  /\ UNCHANGED <<clock, venue, table, version, jobs, letters, pc, latest, collided>>

\* The process dies: an open transaction is rolled back, the lock's key is left.
Die(r) ==
  /\ Fault /\ Running(r)
  /\ jobs' = IF r \in Inline THEN jobs ELSE [jobs EXCEPT ![run[r].job].state = "stalled"]
  /\ End(r)
  /\ UNCHANGED <<clock, venue, table, version, letters, lock, latest, collided>>

LockExpires ==
  /\ lock # Nobody /\ ~Running(lock)
  /\ lock' = Nobody
  /\ UNCHANGED <<clock, venue, table, version, jobs, letters, pc, run, latest, collided, faults>>

\* BullMQ finds a stalled job: back to the queue once, then failed without an
\* attempt having been counted, so that the failed handler sees it as retrying.
Stalled(j) ==
  /\ jobs[j].state = "stalled"
  /\ jobs' = [jobs EXCEPT ![j].state = IF jobs[j].stalls = 0 THEN "waiting" ELSE "failed",
                          ![j].attempts = @ - 1, ![j].stalls = @ + 1]
  /\ UNCHANGED <<clock, venue, table, version, letters, lock, pc, run, latest, collided, faults>>

-----------------------------------------------------------------------------
(* The crawl: ingestCatalog and #iterate, one event a page *)

Ahead(r) == {e \in Event : e > run[r].cursor /\ listed[e] # {}}
NextEvent(r) == CHOOSE e \in Ahead(r) : \A f \in Ahead(r) : e <= f

\* r's ingest becomes R; a batch that is full is stamped, and applyBatch begins.
Gathered(r, R, full) ==
  /\ run' = [run EXCEPT ![r] = IF full THEN [R EXCEPT !.seenAt = clock] ELSE R]
  /\ pc' = [pc EXCEPT ![r] = IF full THEN "applying" ELSE IF R.ended THEN "sweeping" ELSE @]
  /\ latest' = IF full THEN clock ELSE latest

Fetch(r) ==
  /\ pc[r] = "crawling" /\ ~run[r].aborted /\ Ahead(r) # {}
  /\ LET e == NextEvent(r)
         n == run[r].pending + Cardinality(listed[e])
     IN Gathered(r, [run[r] EXCEPT
          !.cursor = e, !.events = @ \cup {e}, !.returned = @ \cup listed[e], !.pending = n,
          !.batch = [m \in DOMAIN @ \cup listed[e] |->
                       IF m \in listed[e] THEN content[m] ELSE @[m]]], n >= BatchSize)
  /\ UNCHANGED <<clock, venue, table, version, queue, collided, faults>>

\* A record without a usable id is skipped.
SkipRecord(r) ==
  /\ Fault /\ pc[r] = "crawling" /\ ~run[r].aborted /\ Ahead(r) # {}
  /\ run' = [run EXCEPT ![r].cursor = NextEvent(r)]
  /\ UNCHANGED <<clock, venue, table, version, queue, pc, latest, collided>>

\* The pages end, and the last batch is applied.
PagesEnd(r) ==
  /\ pc[r] = "crawling" /\ ~run[r].aborted
  /\ Gathered(r, [run[r] EXCEPT !.ended = TRUE], run[r].events # {})
  /\ UNCHANGED <<clock, venue, table, version, queue, collided>>

EndOfPages(r) == Ahead(r) = {} /\ PagesEnd(r) /\ UNCHANGED faults

\* A cursor the venue has sent before ends the crawl as its last page would.
CursorRepeats(r) == Fault /\ run[r].cursor # 0 /\ Ahead(r) # {} /\ PagesEnd(r)

\* The signal stops the crawl between two events, or the page in flight.
StopAborted(r) ==
  /\ pc[r] = "crawling" /\ run[r].aborted
  /\ pc' = [pc EXCEPT ![r] = "failed"]
  /\ UNCHANGED <<clock, venue, table, version, queue, run, latest, collided, faults>>

\* A page, a statement or a transaction fails; an open transaction is undone.
Break(r) ==
  /\ Fault /\ pc[r] \in {"crawling", "applying", "writing", "sweeping"}
  /\ pc' = [pc EXCEPT ![r] = "failed"]
  /\ UNCHANGED <<clock, venue, table, version, queue, run, latest, collided>>

-----------------------------------------------------------------------------
(* The transaction: applyBatch *)

Stored(m) == m \in DOMAIN row
Hash(c)   == <<version, c>>
DiffContent(old, new) == {f \in Field : old[f] # new[f]}

Writing(r) == {s \in Runner \ {r} : pc[s] = "writing"}

\* The rows another runner's open transaction holds.
Held(r) == UNION {DOMAIN run[s].before : s \in Writing(r)}

\* upsertEvents takes the events' rows, loadMarkets those of the markets that
\* exist; both wait for whoever holds them.
LoadMarkets(r) ==
  /\ pc[r] = "applying"
  /\ \A s \in Writing(r) : run[s].events \cap run[r].events = {}
  /\ DOMAIN run[r].batch \cap Held(r) = {}
  /\ run' = [run EXCEPT ![r].before = [m \in DOMAIN run[r].batch \cap DOMAIN row |-> row[m]]]
  /\ pc' = [pc EXCEPT ![r] = "writing"]
  /\ UNCHANGED <<clock, venue, table, version, queue, latest, collided, faults>>

Known(r, m) == m \in DOMAIN run[r].before
Same(r, m)  == Known(r, m) /\ run[r].before[m].hash = Hash(run[r].batch[m])

\* Variant: presence is refreshed, the flag is not.
TouchedFlagged(r, m) == [row[m] EXCEPT !.last = run[r].seenAt]

Touched(r, m) == [row[m] EXCEPT !.last = run[r].seenAt, !.since = None]

\* The row the upsert leaves: first_seen_at never moves.
Upserted(r, m) ==
  [content |-> run[r].batch[m], hash |-> Hash(run[r].batch[m]),
   first |-> IF Stored(m) THEN row[m].first ELSE run[r].seenAt,
   last |-> run[r].seenAt, since |-> None]

\* Variant: a market that was flagged as missing is taken for a new one.
ChangesOfListed(r, m) ==
  IF Known(r, m) /\ run[r].before[m].since = None /\ ~Same(r, m)
    THEN DiffContent(run[r].before[m].content, run[r].batch[m]) ELSE {}

\* The changed fields of a market whose hash differs: none, if only the hash's
\* definition has changed.
Changes(r, m) ==
  IF Known(r, m) /\ ~Same(r, m)
    THEN DiffContent(run[r].before[m].content, run[r].batch[m]) ELSE {}

Commit(r) ==
  /\ pc[r] = "writing"
  /\ LET B == DOMAIN run[r].batch IN
       /\ row' = [m \in DOMAIN row \cup B |->
                    IF m \notin B THEN row[m]
                    ELSE IF Same(r, m) THEN Touched(r, m) ELSE Upserted(r, m)]
       /\ revisions' = [m \in Market |->
            IF m \in B /\ Changes(r, m) # {}
              THEN Append(revisions[m], [f \in Changes(r, m) |->
                     [old |-> run[r].before[m].content[f], new |-> run[r].batch[m][f]]])
              ELSE revisions[m]]
       /\ first' = [m \in DOMAIN row \cup B |-> IF Stored(m) THEN first[m] ELSE run[r].batch[m]]
  /\ pc' = [pc EXCEPT ![r] = IF run[r].ended THEN "sweeping" ELSE "crawling"]
  /\ run' = [run EXCEPT ![r].batch = NoRows, ![r].events = {}, ![r].pending = 0,
                        ![r].before = NoRows, ![r].seenAt = 0]
  /\ UNCHANGED <<clock, venue, version, queue, latest, collided, faults>>

UnseenSince(r) == {m \in DOMAIN row : row[m].last < run[r].startedAt}

\* reconcileMissing: what this run has not seen and is not flagged, is flagged
\* as missing since it was last seen.
ReconcileMissing(r) ==
  /\ pc[r] = "sweeping"
  /\ LET gone == {m \in UnseenSince(r) : row[m].since = None} IN
       /\ gone \cap Held(r) = {}
       /\ row' = [m \in DOMAIN row |-> IF m \in gone THEN [row[m] EXCEPT !.since = row[m].last]
                                                      ELSE row[m]]
  /\ pc' = [pc EXCEPT ![r] = "swept"]
  /\ UNCHANGED <<clock, venue, revisions, first, version, queue, run, latest, collided, faults>>

-----------------------------------------------------------------------------
Ingest(r) ==
  \/ Fetch(r) \/ EndOfPages(r) \/ StopAborted(r)
  \/ LoadMarkets(r) \/ Commit(r) \/ ReconcileMissing(r)
  \/ Succeed(r) \/ Fail(r)

Next ==
  \/ Tick \/ Deploy \/ LockExpires
  \/ \E m \in Market : Edit(m)
  \/ \E j \in Job : Enqueue(j) \/ Stalled(j) \/ KeepLetter(j) \/ LoseLetter(j)
                     \/ \E r \in Runner : RunJob(r, j) \/ SkipJob(r, j)
  \/ \E r \in Runner : \/ Ingest(r) \/ RunInline(r)
                       \/ Abort(r) \/ Die(r) \/ SkipRecord(r) \/ CursorRepeats(r) \/ Break(r)

Spec == Init /\ [][Next]_vars

-----------------------------------------------------------------------------
(* Properties *)

Time == 0..MaxTime
Row  == [content : Content, hash : {1, 2} \X Content, first : Time, last : Time,
         since : {None} \cup Time]

\* The tables and the queue have the columns' types, and what an ingest keeps
\* its fields'.
TypeOK ==
  /\ clock \in Time /\ latest \in Time /\ edits \in Nat /\ faults \in Nat /\ version \in {1, 2}
  /\ listed \in [Event -> SUBSET Market] /\ content \in [Market -> Content]
  /\ DOMAIN row \subseteq Market /\ \A m \in DOMAIN row : row[m] \in Row
  /\ jobs \in [Job -> [state : {"none", "waiting", "active", "skipped", "completed", "failed", "stalled"},
                       attempts : Nat, stalls : Nat]]
  /\ letters \in [Job -> {"none", "adding", "kept", "lost"}] /\ lock \in Runner \cup {Nobody}
  /\ pc \in [Runner -> {"idle", "crawling", "applying", "writing", "sweeping", "swept", "failed"}]
  /\ \A r \in Runner :
       /\ run[r].job \in Job \cup {Nobody} /\ run[r].startedAt \in Time /\ run[r].seenAt \in Time
       /\ DOMAIN run[r].before \subseteq DOMAIN run[r].batch /\ DOMAIN run[r].batch \subseteq Market
       /\ run[r].events \subseteq Event /\ run[r].pending \in Nat

\* What a complete crawl that ran alone leaves flagged is what it was not given:
\* a market it returned is not missing, whatever an earlier crawl that failed
\* half-way, was aborted or died has written, and one it did not return is.
SettlesPresence ==
  \A r \in Runner :
    pc[r] = "sweeping" /\ pc'[r] = "swept" /\ run[r].alone
      => \A m \in DOMAIN row : row'[m].since # None <=> m \notin run[r].returned
CrawlSettlesPresence == [][SettlesPresence]_vars

\* The history explains the row: a field says what its last revision made of it,
\* or what the market said when it was created, and each revision takes up
\* where the one before it ended, across retries, crashes and releases that
\* change the hash, as long as no two ingests ran at once.
HistoryExplainsRow ==
  ~collided =>
    \A m \in DOMAIN row, f \in Field :
      LET steps == {i \in DOMAIN revisions[m] : f \in DOMAIN revisions[m][i]}
          said(i) == IF \E k \in steps : k < i
                       THEN LET k == CHOOSE k \in steps : k < i /\ \A l \in steps : l < i => l <= k
                            IN revisions[m][k][f].new
                       ELSE first[m][f]
      IN /\ row[m].content[f] = said(Len(revisions[m]) + 1)
         /\ \A i \in steps : revisions[m][i][f].old = said(i)

\* What has failed for good, and nothing that is to run again, has its dead letter, or
\* has one on its way, whatever failed it on its last attempt: an error, a lost lock,
\* the deadline -- unless it stalled twice, which the handler takes for a retry, or the
\* letter was lost on its way.
ExhaustedIsKept ==
  \A j \in Job :
    /\ letters[j] # "none" => jobs[j].state = "failed"
    /\ jobs[j].state = "failed" => letters[j] # "none" \/ jobs[j].stalls > 1

\* trigger-ingest.ts: --inline "still takes the lock, so it cannot collide with
\* a deployed crawl".  Nothing has failed, and two ingests are at work.
InlineCannotCollide ==
  faults = 0 => \A r, s \in Runner : Running(r) /\ Running(s) => r = s

=============================================================================
