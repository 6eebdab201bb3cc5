# dutchbook in TLA+

dutchbook watches Polymarket for prices that contradict each other: it crawls
the catalog of markets, extracts logical relations between them, keeps order
books in memory over WebSockets, screens every relation against current prices,
prices the trade that would correct a violation, records how long violations
last, and alerts on the ones worth taking. It is a single TypeScript service
that is deployed in several replicas over one Postgres and one Redis.

This directory models its stateful parts in TLA+, checks the models with TLC on
small instances, and proves with TLAPS what can be proved for every instance.
All source paths below are relative to the repository (`src/` is the source
directory, `docs/` the documentation).

- [Components](#components)
- [Modules](#modules)
- [Checks](#checks): the runs, their bounds, the fairness they assume
- [What the runs found](#what-the-runs-found)
- [Proofs](#proofs)
- [Not modelled](#not-modelled)
- [Plan](#plan)

## Components

| component | source | state | operations | hard behaviours | modelled in |
|---|---|---|---|---|---|
| market feed | `polymarket/ws.ts` | books, seeds in flight, buffered changes, shards, hash history, reconcile's queue, cursor and parking | start, stop, seed, tick, reconcile, message handlers | updates racing snapshots; reconnects racing seeds; delivery loss | `MarketFeed` |
| venue clients | `polymarket/http.ts`, `clob.ts`, `gamma.ts`, `alerts/discord.ts` | a token bucket per client, a retry loop per call, a page cursor | fetchBooks, fetchMarketsByConditionIds, iterate, send, edit | calls that share a bucket, retries, Retry-After, answers in any order | `VenueClients`, `CatalogIngest` |
| feed runner and watcher | `jobs/market-feed.ts`, `coherence/watch.ts` | dirty and violating keys, the index of constraints, the trigger's cooldown | refresh, flush, reconcile, close; load, observe, flush | a refresh that fails, a detection inside the cooldown, a key that cannot be priced | `CoherenceWatcher` |
| job lock | `jobs/lock.ts`, `redis.ts` | a Redis key with a time to live; a timer and a signal per holder | acquireLock, renew, release, withLock | expiry, outages, queued and resent commands, crashes | `JobLock` |
| coherence job | `jobs/coherence-queue.ts` | the queue, attempts, dead letters | run, retry, give up, close | what was not evaluated; replicas that overlap | `ViolationEpisodes`, `CoherenceWatcher`, `ServiceShell` |
| two-stage check | `coherence/check.ts`, `load.ts` | none of its own | load, quote, screen, promote, confirm | a feed that moves while quotes are read; members that close; the budget | `CoherenceCheck` |
| constraints, baskets, pricing | `coherence/constraints.ts`, `trade.ts`, `pricing/*.ts` | none | evaluate, basket, walk the book, size the trade | boundaries of depth, size and fee | `CoherenceCheck` |
| violation episodes | `coherence/violations-store.ts`, `db/schema.ts` | table `violations` | recordViolations, resolveDisappeared | unlocked read-modify-write, failures between statements | `ViolationEpisodes` |
| alert delivery | `alerts/index.ts`, `violations.ts`, `dedupe.ts`, `store.ts` | table `alert_deliveries`, the Discord channel | afterCheck | at-most-once posting by replicas that crash | `AlertDelivery` |
| digest and system alerts | `alerts/digest.ts`, `system.ts` | the same table, samples of metrics | sendHourlyDigest, evaluateSystem, alertSystem | an hour that is over and still written to; conditions that flap | `HourlyDigest`, `SystemAlerts` |
| catalog ingest, its job and trigger | `jobs/ingest-catalog.ts`, `catalog-queue.ts`, `trigger-ingest.ts` | tables `markets`, `market_revisions`; queue and dead letters | crawl, batch, sweep, retry | half-finished crawls, overlapping runs, a release that changes the hash | `CatalogIngest` |
| relation extraction | `relations/extract.ts`, `ladders.ts`, `temporal.ts`, `partitions.ts`, `complements.ts` | none | extract, build | alike questions that ask opposite things | `RelationExtraction` |
| relation graph | `relations/graph.ts` | none | components, order, reduction | explicit stacks, sets reused and released | `RelationGraph` |
| proposals and review | `relations/proposals-store.ts`, `review.ts`, `store.ts`, `propose-cli.ts`, `candidates.ts`, `proposer.ts` | tables `relations`, `relation_groups`, `relation_proposals`, `market_embeddings` | extract, propose, review, apply a file | verdicts and edges written together, sessions that overlap, runs that die | `ProposalReview` |
| dashboard | `dashboard/*` | a cached answer per endpoint | get, refresh; families and their layout | single flight, failures behind a warm cache, cycles | `DashboardCache`, `DashboardFamilies` |
| service shell | `index.ts`, `server.ts`, `metrics.ts`, `config.ts` | the process | start, drain, shut down | drains that fail or hang, deadlines that overlap | `ServiceShell` |
| formatting, report | `alerts/format.ts`, `report/*` | none | rendering | none | |

How they interact. The **runner** owns the **feed**: it starts it with the
tokens of the constraints, ticks it, reconciles it and rebuilds it every fifteen
minutes. The feed calls the **watcher** on each update; the watcher marks the
constraints of that token, and a flush evaluates them and triggers a
**coherence check** through BullMQ. A check also runs every minute. It takes
the **lock**, screens all constraints at the feed's midpoints or cached quotes,
confirms the worst ones against fresh books, releases the lock, writes the
**episodes**, and has the **alerts** announce them. The **ingest** fills the
catalog under the same kind of lock; **relations** are extracted from it, or
proposed by a model and accepted by a person.

What makes each part correct:

- feed: a readable book never silently misses an update, and one that does is
  repaired;
- lock: two runs are not at work at once, and one that lost the lock is told;
- episodes: one open episode per constraint, opened and closed by what a check
  saw of that constraint, confirmed for good, with a lifetime that is one;
- alerts: one alert per episode, escalations that are earned, one follow-up;
- ingest: a market is missing only if a full crawl did not return it, and
  revisions record exactly the changes;
- relations: an edge follows from what the questions mean or has a verdict, verdicts are
  final, a pair whose answer is stored is not paid for again, the reduced graph implies
  what the full one did;
- check: no market is judged by an old quote without the venue having been asked for a
  newer one, and a confirmed trade earns what it
  reports in every world the constraint admits;
- clients: no window of time sees more requests than the budget, and what is reported
  missing is what the venue, asked about it, left out;
- watcher: what it reports is true of what it has heard, and what it did not hear
  a check finds;
- digest and system alerts: said once an hour, or once a cooldown, and nothing
  left out;
- dashboard: never backwards, never stuck, and in agreement with itself;
- shell: a process told to stop does, and cuts no job off before its time unless the
  server fails to close.

## Modules

| module | models | composed of |
|---|---|---|
| `MarketFeed` | the feed with venue, wire and REST as its environment | |
| `JobLock` | the lock with Redis, its clients, the clock | |
| `EpisodeLifecycle` | abstract: what the table of episodes promises | |
| `ViolationEpisodes` | the job, the check's two stages, the table | refines `EpisodeLifecycle` |
| `AlertDelivery` | announcing episodes: tables, channel, replicas | |
| `HourlyDigest` | the digest beside the recording of episodes | |
| `SystemAlerts` | the service's health and its reminders | |
| `VenueClients` | the retry loops over their token buckets | |
| `CatalogIngest` | crawl, transactions, sweep, job, lock, inline run | |
| `CoherenceWatcher` | watcher, runner and queue | |
| `CoherenceCheck` | one check, from the constraints loaded to the trades priced | |
| `RelationExtraction` | from questions to edges and groups | |
| `RelationGraph` | the graph's algorithms, a turn of a loop per action | |
| `ProposalReview` | how relations reach the database | |
| `DashboardCache`, `DashboardFamilies` | one endpoint's cache; what the page says of a family | |
| `ServiceShell` | the process from start to exit | |
| `Service` | what the service does beside its checks | `AlertDelivery`, `HourlyDigest`, `SystemAlerts`, `CatalogIngest`, `VenueClients` |
| `MCMarketFeed`, `MCViolationEpisodes` | two instances each: see [Checks](#checks) | `MarketFeed`; `ViolationEpisodes` |
| `MCFeedToken` | one token, for what needs the feed's own specification | `MarketFeed` |
| `MCJobLock`, `MCAlertDelivery`, `MCCoherenceCheck` | instances of one module | |
| `Relations` | relations and what is made of them | `ProposalReview`, `RelationGraph`, `RelationExtraction`, `CoherenceCheck`, `DashboardFamilies` |
| `MCRelations`, `MCService`, `MCLiveness` | small values of their parts | `Relations`; `Service`; `Liveness` |
| `Liveness` | what must happen in the end | `CoherenceWatcher`, `AlertDelivery`, `DashboardCache`, `ServiceShell` |
| `*_proofs` | theorems | the module they are named after; those of the compositions are about their parts |

`Service`, `Relations` and `Liveness` put their parts side by side, not together: a
variable `part` is chosen by the initial state, that part's `Next` steps, and the
variables of the others are idle. One run then checks parts that need the same
options, and each property names its part. `MCMarketFeed` and
`MCViolationEpisodes` do the same with two instances of one module, told apart by
what their initial states range over.

An operator whose comment starts with *Variant:* is a plausible wrong version of
the operator below it. Nothing refers to it; it is there so that one can swap it
in and see which property notices (`PROJECT.json`, `mutants`).

### MarketFeed

The venue's history of a token is a numbered list of changes. A book maps each
price level to the number of the change that last wrote it; since a change
carries the level's absolute size, that is all there is to know of a book. The
venue's `hash` of a state is its version number.

| code | model |
|---|---|
| `#books`, `LiveBook.bids/asks`, `seededAt`, `hashes` | `held`, `book`, `seeded`, `hashes` |
| `#pendingChanges`, `#seedingTokens` | `pend`, `seeding` |
| `#unrecognised`, `#resyncQueue`, `#cursor` | `parked`, `hints`, `cursor` |
| `Shard.socket/connected`, `attempt > 0`, `#stopped` | `socket`, `retried`, `stopped` |
| an awaited `fetchBooks` of `seed` or `reconcile` | a record of `fetch`, filled token by token by `ReadBook`/`ReadMissing` |
| `start`, `stop`, `tick`, `onopen`, `onclose`/`#drop` | `Start`, `Stop`, `Connect`, `OpenFirst`/`OpenAgain`, `SocketLost` |
| `seed` up to its await, after it, its `finally` alone | `Start`/`OpenAgain`, `FinishSeed`, `FailSeed` |
| `#onPriceChange` on a seeded, seeding, other book | `ApplyChange`, `BufferChange`, `DropChange` in `OnPriceChange` |
| `#onBook`, `#install` with `#drainPending`, `#checkTop`, `#emit` | `OnBook`, `Install`, `Hinted`, `unheard` |
| `reconcile` up to its await, after it | `ReconcileStart`, `FinishReconcile`/`FailReconcile` |

An action is the code between two awaits: JavaScript runs it without
interruption. `Subscribed` is the moment from which the venue delivers; it comes
some time after `onopen`, and nothing older is replayed. Two history variables
carry the properties: `suspect` is the set of causes by which a book may have
lost an update since it was last installed cleanly (a gap before the
subscription, overlapping seeds, a pushed book, delivery loss, a late repair),
and `unheard` the books whose change no listener was told of.

Abstracted: backoff times and the staleness deadline (any of them may run out),
malformed frames and levels, the top of book itself (`Hinted` queues a token or
not whenever the book differs from the venue's), several changes in one message
(each is an `OnPriceChange`; the code has no await between them, and none of the
properties can tell), tick size, fees and other metadata.

### JobLock

One action per command sent, executed by Redis, answered. Time is discrete and
`Tick` waits for a timer that is due and for an answer that is late, unless its
client is cut off: `LinkDown` loses an answer under way and puts its command
back in the queue, as ioredis does with `maxRetriesPerRequest: null`; `LinkUp`
lets it go out again. `RenewFails` and its like are Redis answering with an
error. `Crash` kills a process, `Evict` deletes the key. `cut`, `evicted` and
`misses` are history: whether the current run was cut off, whether its key was
deleted, and how often its renewal failed since the last that worked.

### ViolationEpisodes

`Begin`, `Screen`, `Confirm` are the check under the lock; which constraints are
violated and which yield a profitable trade are chosen freely, within the budget of
stage 2 and, with `Partial`, for a screen that lacks some price. `Record`, `Select`,
`Insert`, `Update`, `FindGone`, `CloseRow` are the statements of `recordViolations` and
`resolveDisappeared`, which run after the lock is released and in no transaction:
another worker may come between any two. A row keeps its key, status, whether it has a
reason, `ever_confirmed`, the peak profit and the two times. The lock itself is taken to
be sound here; when it is, is `JobLock`'s subject. `EpisodeLifecycle` is the abstract
specification of the table: an episode opens, keeps the best it has seen while open, and
is not touched after it closed. `violated` and `promoted` are histories: what a check
found violated, and what of it stage 2 had the budget for. The refinement maps its
`open` and `done` to the rows without and with `resolved_at`.

### AlertDelivery

`LoadConfirmed` to `Done` are `afterCheck` of one replica, an action per await: two
loads of episodes, a load of deliveries, then per episode a claim, a post and a record.
`posted` is the channel as its readers see it. A post comes to what `Outcomes` says:
taken, refused, taken though the answer was lost, or, for that reason, sent and taken
twice; the second message is marked as a `copy`. `excused` is history: the episodes
whose next escalation may not be earned, since two replicas had loaded the deliveries at
once or a post went unrecorded. `Observe` and `Resolve` are `recordViolations` of any
replica that is not in `afterCheck`. The two floors are one (`Floor`), and the 100 rows
of the follow-up query are all there are.

### HourlyDigest and SystemAlerts

`HourlyDigest` takes a replica from the recording of episodes to the digest of
the last complete hour, a statement per action: `BeginRecording`,
`InsertEpisode`, `Upgrade`, then `BeginDigest`, `List`, `Count`, `Claim`, `Send`,
`Note`. The time of a recording is taken when it begins (`now` of the check), so
an insert may come when its hour is over; the history `late` keeps those. `List`
takes as many violations as the statement's limit allows (`ListLimit`; the code's 500 are
the largest, and of magnitudes nothing is said here). `Count` is a statement of its own,
and an episode that is confirmed between the two is in both.

`SystemAlerts` has the signals of `evaluateSystem` as a function of a snapshot
and the sample before it (`EvaluateSystem`), and `alertSystem` per finding:
`LoadDelivery`, `Decide` with the cooldown, `Claim` and `SendFirst`, or
`SendAgain` and `RecordResend`. Nothing under `src/` calls the two; their caller
here is what their tests do, one evaluation after another on a replica that may
die. Two replicas' reminders of one signal are not claimed against each other,
so the property is of one.

### VenueClients

| code | model |
|---|---|
| `TokenBucket.take`, `#refill` | `Take`, `Refilled`, `Shortfall` |
| `parseRetryAfter`, `backoff` (full jitter) | `ParsedRetryAfter`, `FullJitter`, `Ceiling` |
| the `for` over attempts of `#request`, `#get`, `#send` | `Begin`, `Wake`, `Unreachable`, `Refuse`, `Answer`, `Break`, and `Retry` or `Finish` |
| `fetchBooks` by batches; records filed by the id they carry; the last batch | `BatchFrom`, `Filed`, `AllAsked` |

A call is alone between two awaits; calls of one client share its bucket. `Break`
is what ends a call without a retry: a body cut off while it is read (outside the
`try` in all three clients), one that is not of the shape, the caller's signal.
Tokens and rates are integers: a token is `Unit` parts, of which a tick adds `Rate`.
`told` is history: the ids a call was answered about, and those it was given.

### CatalogIngest

| code | model |
|---|---|
| the venue's pages by keyset | `Fetch`, `EndOfPages`, `CursorRepeats`; a record that does not parse: `SkipRecord` |
| `#applyBatch`: load in a transaction, diff, upsert, revisions | `LoadMarkets`, `Commit` with `Upserted`, `Changes`, `DiffContent` |
| the sweep for missing markets | `ReconcileMissing` with `UnseenSince` |
| the job: lock, attempts, stalls | `Enqueue`, `RunJob`, `SkipJob`, `Succeed`, `Fail`, `Stalled` |
| the `failed` handler and the dead letter it does not wait for | `Exhausted` in `Fail`; `KeepLetter`, `LoseLetter` |
| `trigger-ingest.ts --inline` | `RunInline`: no lock, no queue |
| the signal (lock lost, deadline, close), a killed process, a dropped connection | `Abort`, `StopAborted`, `Die`, `Break`, `LockExpires` |

The venue rewords, delists and moves a market (`Edit`), and a release changes
what the content hash covers (`Deploy`). `before` of an ingest is the rows its
transaction loaded and locked; `alone` and `collided` are histories that tell
runs that had the table to themselves. `JobLock` says what the lock is worth.

### CoherenceWatcher

`Observe` is the feed's callback; `Flush` is the debounced `#flush` of the runner
with the watcher's `flush` in it, and queues a check unless one was triggered
within the cooldown. `BeginRefresh`, `LoadIndex`, `EndRefresh` are `refresh`
between its awaits: the constraints are loaded, the index replaced, the feed
started over. `Replace` is a book installed or taken away in silence, which
`MarketFeed` shows can happen (`OnlySnapshotsUnheard`). `Schedule`, `Succeed`,
`Skip`, `Fail` are the queue: a check by the minute, its attempts, the lock held
by another replica, dead letters. `heard` and `examined` are histories.

### CoherenceCheck

One check from `Load` to the last `ConfirmOne`: quotes are refreshed in batches
while the feed moves (`RefreshQuotes`, `FeedMoves`), each with an answer about any of the
markets asked for (`quoted`, `omitted`), the `Screen` ranks what is
violated and promotes up to the budget, the books are fetched with a row of
`price_snapshots` each, and each promoted constraint is priced or refused in the
order of the code's refusals. A probability is an integer up to `Scale`, and
money is counted in parts so small that a price times a fee is whole (`Usdc`):
the code's rounding of doubles is out of the model, its boundaries are not.
`MaxProfitableSize` and `OptimalSize` are the code's searches, by halves and by
thirds, on integer sizes. What is bought, what it costs and what it pays are then
computed a second time in the properties, share by share and world by world.

### RelationExtraction, RelationGraph, ProposalReview

`RelationExtraction` starts where the regular expressions end: a question is the parts
they would recognise, and the extractors are functions of a catalog of such questions.
The properties give the parts a meaning (`Holds` in a `World`, clause by clause) and
compare; that one market leads to another along edges is stated by the sets that no edge
leaves (`Leads`). `RelationGraph` is an action per turn of each loop, since what can go
wrong there is the bookkeeping of a loop: Tarjan's frames, Kahn's queue, sets of
reachable nodes that are handed to their last consumer and changed in place. What leads
where is again stated without an algorithm, by the sets that no edge leaves (`Path`).
Its filters are `Those` and not `SelectSeq`, which is defined by recursion. `Relations`
extends it together with `ProposalReview`. `ProposalReview` has runs of
`relations:propose` (`Embed`, `FindCandidates`, `Ask`, `SaveProposals`), sessions and
files of `relations:review` (`Load`, `Decide`, `ApplyLine`, both by `RecordVerdict`) and
`relations:extract`, over the tables they share. Similarity is any choice of neighbours,
an answer of the model any answer; `paid` is history and counts the completions of a
pair, the refused, empty and unparsed among them (`NoAnswer`).

### DashboardCache and DashboardFamilies

`DashboardCache` is `memo`: `GetCold` waits for the query in flight, `GetWarm`
answers at once and refreshes behind the answer, a query is two statements that
see the database at two times. `DashboardFamilies` has `readFamilies`, the two
family queries, and the page's layout and marks as functions of a database that
closes, quotes and relates markets. `readFamilies` lists at most `FamilyLimit` families
of a kind (300 in the code), the largest first, and among equals those the database
likes: `ReadFamilies` is the set of the listings there may be.

### ServiceShell

`StartWorker`, `Serve`, `FailToStart` are the top of `index.ts`, `Signal` to `Released`
its `shutdown`, an action per await; `Drained` to `CloseFails` are the `close` of the
two queues, which run side by side. `HttpFails` is the `catch` around it all: a feed or
a server that fails to close ends the process at once (`aborted`). A job is in flight or
not. Time is counted from the signal and from the drains, and `Tick` waits for a timer
that is due. Whether a forced close ends anything is BullMQ's affair: `Forced` may come
or not. The feed's `close` is `CoherenceWatcher`'s `Close`.

## Checks

`PROJECT.json` lists each run with the properties it checks. Runs that pass:

| run | instance | properties | states |
|---|---|---|---|
| `MarketFeed` | 1 token, 2 levels, 2 changes, 1 start, 1 fault, loss and pushes; or 2 tokens on 2 shards, 1 change each of one level, batch of 1 | `TypeOK`, `NoLostUpdate`, `OnlySnapshotsUnheard` | 0.8M |
| `MarketFeed_live` | 1 token, 2 levels, 2 changes, 1 fault, loss and pushes, nobody stops it | `EventuallyRepaired` | 0.4M |
| `JobLock_healthy` | 2 replicas, 2 runs each, 12 ticks, 2 failures of any kind | `TypeOK`, `Exclusion`, `AnsweredRunStops` | 3.1M |
| `Episodes` | 1 worker, 2 constraints, budget 1, 4 checks, 2 failures; or 2 workers, 1 constraint, 1 failure | `OneOpenEpisode`, `OpenIsViolated`, `EpisodeLifecycleHolds`, `CompleteCheckCloses` | 1M |
| `Relations` | see below | `ComponentsAreCycles`, `SortedGraph`, `ReductionKeepsReach`, `PlainEdgesHold`, `AdjacentIsEnough`, `OnlyVerdictsMakeEdges`, `AskedOnce`, `VerdictIsFinal`, `WholeTradePays`, `BestSize`, `ScreenIsCurrent`, `Auditable`, `FamilyPage` | 0.6M |
| `Service` | see below | `OneAnnouncement`, `LoneEscalationIsEarned`, `DigestIsWhole`, `Reminded`, `HistoryExplainsRow`, `ExhaustedIsKept`, `CrawlSettlesPresence`, `Disciplined`, `MissingIsUnknown` | 2.8M |
| `Liveness` | see below | `WatcherAgrees`, `ViolationIsFound`, `FollowedUp`, `Steady`, `CatchesUp`, `ShutsDown` | 0.4M |

What a property of `Relations`, `Service` or `Liveness` says is said where the
module of the part defines it; these only name the instance it is of.

Why the bounds are enough to meet the interesting cases.

- *Feed*: two levels and two changes give a book that has one change and not the other,
  in either order; two fetch slots let a start, a reseed and a reconcile overlap in
  pairs; the first change comes after the instant of the seeds, so that the second may
  share its millisecond; one fault makes a shard reconnect, one hash forgotten
  (`HashHistory` 2 of 3 versions) makes a snapshot unrecognised. Two shards with one
  change each are what a shared flag or buffer needs to go wrong; there one of the two
  shards may lose its socket, both tokens are subscribed, and stopping is left to the
  instance with one token, where it does not meet a fault. `MarketFeed_live` has two
  levels as well: only then can a book have the venue's hash and other levels, which
  `reconcile` finds by comparing them (`ws.ts:730-752`). Its levels and fetch slots are
  alike and cannot be declared symmetric for a liveness property; `InOrder` has the
  first change be of the first level, and the first slot be used before the second.
- *Lock*: the time to live is three periods and a period is longer than an
  answer, the ratios of the code's defaults; twelve ticks are two times to live.
- *Episodes*: a constraint opens, degrades, closes and opens again in four
  checks; two constraints and a budget of one truncate stage 2, and checks of at
  most one violation are complete ones.
- *Alerts*: edges 0 to 2 with a factor of 2 have growth that earns an escalation
  and growth that does not (beside `Service`'s other parts an edge only grows, over one
  cooldown, with two replicas and a failure; in `Liveness` it does as it likes). In `Liveness`
  the clock runs for twice the lookback of two, and a check, a claim, a post or a record
  fails or a replica dies once: a follow-up may be missed by one check, is found by the
  next, and would be out of reach of the one after that. With a lookback of one tick TLC
  refutes `FollowedUp`.
- *Graph*: every graph of four markets and at most five implications, every
  acyclic graph of five, every list of at most three implications between three
  markets in every order and with repetitions. Four nodes have two components
  that meet and a node that reaches into one; five have a reduction in which a set
  is handed on twice.
- *Extraction*: every catalog of three rows of a family, in any order: levels, touches
  and criteria at three thresholds, affirmed or not; deadlines and instants of one event
  or none, affirmed or not; clauses with and without negation. Three rungs are what
  transitivity and a wrong neighbour need.
- *Proposing*: two runs, a session, a file, an extraction and a death or a lost answer: a pair
  found by two runs, decided twice, and overwritten.
- *Check*: a pair with every two-level book on either side of depth, price and
  size limits; partitions with and without a closed member; three constraints
  under a budget of two with a feed that moves twice.
- *Page*: three markets of one event, all three and two of them in a group each, of which
  one can be listed; any relations between them,
  cycles included, any of them closed or unquoted.
- *Digest*: two replicas and three violations over two complete hours, of which a digest
  lists two, with a failure. *System alerts*: a replica over two cooldowns, with a failure.
- *Catalog*: three crawls of a market that two events can list, one of them by
  hand, two attempts, two failures of any kind and an edit or a release.
- *Clients*: two calls on one bucket that holds a token and a half, one of them for three
  ids, one named twice, in two batches;
  Gamma's and Discord's calls with their ways to read a Retry-After above the cap.
- *Watcher*: two constraints that are each other's reverse, three changes, a
  cooldown that the clock can outlive and one failure. *Cache*: two clients, two
  versions, two failures. *Shell*: both workers or one or none; a drain and the
  rest of the budget are two ticks each, so that either deadline can come first.

Each bound is a CONSTANT marked *bound* in its module.

`CHECK_DEADLOCK FALSE` stands in the configurations whose bounds (checks,
clock, starts) let the system come to rest.

Fairness. `MarketFeed!Fairness`: the runner's timers tick and reconcile for as long as
the process lives (`jobs/market-feed.ts`, `every`), sockets open or are lost, REST
answers or fails, and the venue delivers what it has not lost. A reconnection needs a
free fetch slot, a bound of the model and not of the code, so `OpenAgain` is strongly
fair. No change, push, fault, start or stop is ever obliged.
`Liveness!LivenessFairness`, weak only (and, of the alerts, `OnSchedule`: no interval
passes in which no check was begun, as long as the clock runs): the watcher's debounce
timer fires; BullMQ's scheduler adds a check every interval and a worker takes what is
queued, to succeed, be skipped or fail, faults being bounded; a replica's `afterCheck`
goes on and comes round with the next check; for the cache, time passes, Postgres
answers or fails, and a page that is open polls; for the shell, timers fire, and nothing
else is sure to happen. Nothing is assumed of the feed's callbacks, of a refresh or of
changes in the database.

Symmetry is used for replicas, levels, fetch slots, constraints, proposers and
values in runs without liveness properties.

## What the runs found

Five runs check a sentence of the code's own comments and end in a
counterexample. For each, a passing run checks the same concern with the case
excepted, so that the two together say when the sentence is true.

| run | the code says | what happens |
|---|---|---|
| `MarketFeed_gap` | `polymarket/ws.ts:433-437`: connecting before seeding loses no update | `start` does not wait for a socket to open, so a book is read before the subscription takes effect, and a change in between is in neither |
| `JobLock_outage` | `jobs/lock.ts:110-111`: not being able to renew for a TTL is noticed | the client queues the renewal without limit, its promise never settles, and the check of `lastRenewedAt` stands in the `catch` that is not reached |
| `Episodes_truncated` | `coherence/violations-store.ts:44-49`: `stillViolating` is every key found violated, screened or confirmed | the job passes the keys of the confirmations, which stage 2 cut to its budget; the other episodes are closed, and reopened by a later check with a new lifetime |
| `Alerts_twice` | `alerts/store.ts:12-18`: one alert across replicas; checking and then sending leaves a window for both to post | that is how escalations are done: decided on rows read earlier, posted, then recorded by an unconditional UPDATE |
| `Trade_partition` | `coherence/constraints.ts:184`: the payout is the minimum over every state the constraint permits | `load.ts:72` keeps a partition's open members only, if they are two or more; the basket of their Yes pays nothing if the closed member is the winner |

The rest of this section is what modelling met on the way. Where a sentence of
the code is stated in a module and no run checks it, it is a definition that the
model violates, kept there beside the property that takes its place.

**Feed.** `NoLostUpdate` excepts books marked by one of five causes in `suspect`,
and TLC finds a counterexample for each cause that is taken from the list
(`NoLostUpdateExcept` states the property with causes left out):

- *gap*: the run above;
- *overlap*: of two seeds of one token the first to install takes the buffer
  and lowers the flag, and the second installs an older snapshot with nothing to
  replay (`ws.ts:907-908` says changes during a seed are buffered and replayed);
- *push*: a `book` pushed during a seed marks the token seeded, so that later
  changes are applied and then overwritten (`ws.ts:453-457`);
- *late*: `reconcile` installs the book it awaited over changes applied meanwhile
  (`ws.ts:662-665` says anything in flight has long arrived);
- *loss*: a change that never arrives, which only `reconcile` can find.

`suspect` is cleared by a clean install, and `EventuallyRepaired` says that one
comes if it is needed, also where the hashes agree and the levels do not. Its exception
is real: a seed reads a snapshot that is ahead of the socket, an older book on the socket
takes the token back, and the change the snapshot was ahead by is lost. The history now has
the venue's hash behind the book's own, REST is taken to be behind (`ws.ts:755`), and the
book stays wrong for as long as the venue is quiet.
`OnlySnapshotsUnheard` has an exception too: an install that replays nothing
calls no listener (`ws.ts:1119`), though `ws.ts:288` says that `BookUpdate` is
emitted after a book changes; the watcher keeps its verdict on the old book
until the next change.

**Runner and watcher.** `close()` during a refresh in flight stops the feed, and
the refresh's `start()` opens it again (`ClosedStaysClosed`). A detection inside
the cooldown, or of a key that cannot be priced when it is flushed, triggers
nothing then or later; that is why `ViolationIsFound` rests on the check that is
scheduled, and why the scheduler must not depend on the feed.

**Lock.** `Healthy` grants a run one failed renewal. `lock.ts:65` says two may
fail harmlessly, but the third is sent when the key expires, and with two in
`Healthy` TLC finds two runs at work. A `SET NX` whose answer is lost with the
connection is sent again and refused by the token it set itself, so `null` does
not always mean that someone else holds the lock (`lock.ts:70`).

**Episodes.** A constraint the screen cannot price is in no list of the check,
so its episode is closed as well: `CompleteCheckCloses` needs a check that
examined every constraint. Since rows are written after the lock is released,
two workers can interleave: a slow one closes an episode opened after its own
`now`, which gives a negative duration (`violations-store.ts:152-155`), or writes
`ever_confirmed` back to false from the row it selected before another
confirmed it (`db/schema.ts:554`). The refinement therefore speaks of one worker.
A confirmed episode that degrades keeps its status and gets a reason, which
`schema.ts:547` says is null once confirmed.

**Check and pricing.** The venue leaves out of an answer what it does not recognise,
without a word (`gamma.ts:292-294`); nothing is written of such a market
(`load.ts:144-165`), and the screen goes on with the row an earlier check wrote, of any
age (`load.ts:190-208`). `omitted` keeps these, and `ScreenIsCurrent` excepts them.
`optimalSize` picks the size that earns most and then asks for the edge per unit, so a
basket is refused as immaterial though a smaller size would satisfy both minimums
(`trade.ts:402-412`, `RefusedOnlyIfThin`). The branch for insufficient depth cannot be
reached: sizes are at most the depth. A confirmed trade larger than what a snapshot
keeps cannot be priced again on it (`snapshots.ts:19-20`, `check.ts:222`); its depth
shows that it was cut, which is what `Auditable` allows.

**Alerts.** A row whose first post failed is followed up all the same
(`alerts/violations.ts:232-233` calls that noise); a process that dies between an
escalation and its record escalates again; a follow-up whose post fails is not repeated
(`docs/DESIGN.md:1305` accepts that for alerts, `alerts/dedupe.ts:56-60` says it happens
exactly once), which `FollowedUp` excepts as `Lost`. A follow-up is looked for within a
lookback of the episode's end and no longer, so `FollowedUp` also needs what the code
leaves to its scheduler: that checks begin in time, and that those which fail do not use
up the lookback. After a longer outage follow-ups are lost, by design.
`docs/DESIGN.md:1284` says a resolution edits the original message; the code posts a
reply. A digest lists the 500 largest and drops the rest without a word
(`digest.ts:81`); that of an hour misses a violation whose check began in that hour and
was recorded after it (`digest.ts:49-53`, `NoneMissed`).

**Catalog.** `trigger-ingest.ts:22-23` says an inline run takes the lock; it does
not (`InlineCannotCollide`), and beside a deployed crawl each writes revisions
from the same row. A cursor the venue repeats ends the crawl as a last page would
(`gamma.ts:373`): the sweep then flags whatever was behind it. The dead letter of a job that
failed for good is added by a handler nobody waits for, and an error of the add is only
logged (`catalog-queue.ts:217-233`); a job that stalls twice never reaches that handler with
its attempts spent. `ExhaustedIsKept` excepts both.

**Clients.** `http.ts:6-13` speaks of one budget for the process; each
`new GammaClient` or `new ClobClient` has a bucket of its own (`check.ts:123-124`,
`load.ts:132`, `ingest-catalog.ts:768`, `ws.ts:402`; `SharedBudget`). The body is
read outside the `try`, so one that is cut off is not retried (`clob.ts:475` and
the other two). A bucket serves whoever wakes first, not whoever came first.

**Graph.** The reduction is not the smallest set (`graph.ts:358-359`,
`ReductionIsSmallest`): a node that is the last consumer of two sets keeps the
larger and deletes the smaller before reading it (`graph.ts:411`, `:415`), so
the edges that one makes redundant stay. Nothing is lost, which is what
`ReductionKeepsReach` says. An edge from one component to another is on no cycle
and is dropped all the same (`graph.ts:250-253` against `:198-199`,
`OnlyCyclesDropped`). The walk that names a cycle may begin outside it
(`graph.ts:142`).

**Extraction.** `EdgesHold` fails where a ladder mixes questions about a date with
questions about the time until then, since both have the same subject once it is
tidied (`ladders.ts:329`), and where a question has a negation in each of two
clauses, all of which are taken out at once (`complements.ts:80` against `:66`).
Proving the rest brought three more to light, each confirmed by TLC: nothing refuses a
rung or a deadline with a negation, so that "not above 3" is said to imply "not above 2"
and "not by June" to imply "not by December", both the wrong way round
(`ladders.ts:18-20` calls a false edge a bound that is not true); a chain of "hit"
questions does not consult the criteria (`temporal.ts:129-147`), so two that these
orient oppositely are chained; and a complement's end dates are not compared
(`complements.ts:111-148`). `PlainEdgesHold` names all of these; without any one of its
exceptions TLC refutes it.
Rungs that share a threshold get no edge between them, and the chain breaks
there, though adjacent edges are said to encode the full relation
(`ladders.ts:556-557`).

**Proposing.** `proposer.ts:151-152` says that a pair once asked is never asked again,
whatever the answer was, and `proposer.ts:156-157` that an answer which does not parse
discards its pair for good. Neither is so (`NeverAskedAgain`): of a completion that is
refused, empty or not parsed nothing is stored (`proposer.ts:178-188`, `268-281`), so the pair
is a candidate of the next run and paid for again; and since every answer is stored at the
end of the run, so is a pair of a run that died, or of one that overlaps another.
`AskedOnce` counts these three and says that there is no fourth. `review.ts:208-233`
counts a file's verdict as accepted though another had decided the proposal. A
group that extraction no longer finds stays in the tables (`store.ts:156`).

**Dashboard.** After a failure the next request begins another query at once, so
the endpoint sees more than one a TTL (`index.ts:33-35`, `Decoupled`); a payload
whose statements straddle a change is of two moments (`OneMoment`). The page
hard-codes the epsilon that the screen reads from its configuration. `readFamilies` lists
the 300 largest families of a kind (`queries.ts:494`): a violated one behind them cannot be
picked, which `ViolatedCanBePicked` says.

**Shell.** A feed or a server that fails to close goes to the `catch` at `index.ts:104`,
which exits at once: no drain is begun, and the jobs in flight are cut off, a
transaction of the crawl with them. `GraceStep` excepts it. The budget of a shutdown is
`SHUTDOWN_TIMEOUT_MS` and, with workers, the drain's, from the signal on, though
`docs/DESIGN.md:1673-1675` names the first only. If requests take longer than the first
to end, the process exits before the drain's deadline, and a job is not returned to its
queue, which `docs/DESIGN.md:354-355` promises, but left to the queue's stalled check. A
worker goes on taking jobs while requests end. A start that fails after a worker was
started exits under the job it may have taken (`index.ts:55-58`); `ShutsDown` is about
processes that had started.

## Proofs

The theorems hold for every number of processes, tokens, levels, constraints, episodes,
markets, sessions and runs, and for every value of the bounds, since these occur only in
guards. What a run checks of `Service`, `Relations` or `Liveness` and a theorem states
is proved of the composition: the theorem of a part, or its invariant, and `ServiceSpec
/\ part = "catalog" => Catalog!Spec` and its like, whose behaviours are those of the
part alone (`DigestBehaves` to `OthersBehave`).

| theorem | states | assuming |
|---|---|---|
| `MarketFeed_proofs!TypeCorrect` | `[]TypeOK` | `TokenAssumption`, `BoundAssumption` |
| `MarketFeed_proofs!NothingIsLost` | `[]NoLostUpdate` | the same |
| `MarketFeed_proofs!SnapshotsOnlyUnheard` | `[]OnlySnapshotsUnheard` | the same |
| `JobLock_proofs!TypeCorrect` | `[]TypeOK` | `LockAssumption` |
| `JobLock_proofs!MutualExclusion` | `[]Exclusion` | `LockAssumption` |
| `JobLock_proofs!AnsweredRunsStop` | `[]AnsweredRunStops` | `LockAssumption` |
| `ViolationEpisodes_proofs!TypeCorrect` | `[]TypeOK` | `CheckAssumption` |
| `ViolationEpisodes_proofs!OneOpen` | `[]OneOpenEpisode` | `CheckAssumption` |
| `ViolationEpisodes_proofs!OpenEpisodesAreViolated` | `[]OpenIsViolated` | `CheckAssumption` |
| `ViolationEpisodes_proofs!CompleteChecksClose` | `CompleteCheckCloses` | `CheckAssumption` |
| `ViolationEpisodes_proofs!EpisodesFollowLifecycle` | `EpisodeLifecycleHolds` | `CheckAssumption` |
| `Service_proofs!TypeCorrect` | `[]TypeOK` of the alerts | `AlertAssumption` |
| `Service_proofs!AnnouncedOnce` | `[]OneAnnouncement` | `AlertAssumption` |
| `Service_proofs!EscalationsAreEarned` | `[]LoneEscalationIsEarned` | `AlertAssumption` |
| `Service_proofs!EachDigestIsWhole` | `[]DigestIsWhole` | `ServiceAssumption` |
| `Service_proofs!EachIsReminded` | `Reminded` | `ServiceAssumption` |
| `CatalogIngest_proofs!HistoriesExplain`, `Service_proofs!EachHistoryExplains` | `[]HistoryExplainsRow` | `Ordered`; `ServiceAssumption` |
| `CatalogIngest_proofs!CrawlsSettle`, `Service_proofs!EachCrawlSettles` | `CrawlSettlesPresence` | `Ordered`; `ServiceAssumption` |
| `CatalogIngest_proofs!ExhaustedAreKept`, `Service_proofs!EachExhaustedIsKept` | `[]ExhaustedIsKept` | `Ordered`; `ServiceAssumption` |
| `VenueClients_proofs!ClientsAreDisciplined`, `Service_proofs!EachIsDisciplined` | `[]Disciplined` | `Configured`; `ServiceAssumption` |
| `VenueClients_proofs!MissingAreUnknown`, `Service_proofs!EachMissingIsUnknown` | `[]MissingIsUnknown` | `Configured`; `ServiceAssumption` |
| `Liveness_proofs!WatcherIsRight` | `[]WatcherAgrees` of the watcher | `MembersAssumption` |
| `Liveness_proofs!CacheIsSteady` | `Steady` | `LivenessAssumption` |
| `Liveness_proofs!JobsHaveTheirGrace` | `Graceful`, the safety half of `ShutsDown` | `LivenessAssumption` |
| `Relations_proofs!VerdictsAreFinal` | `VerdictIsFinal` of the review | `ReviewAssumption` |
| `Relations_proofs!EdgesAreEarned` | `[]OnlyVerdictsMakeEdges` of the review | `ReviewAssumption` |
| `Relations_proofs!PairsAreAskedOnce` | `[]AskedOnce` of the review | `ReviewAssumption` |
| `Relations_proofs!EdgesAreEntailments` | `[]PlainEdgesHold` | `RelationsAssumption` |
| `Relations_proofs!AdjacentEdgesAreEnough` | `[]AdjacentIsEnough` | `RelationsAssumption` |
| `Relations_proofs!ScreenUsesFreshQuotes` | `[]ScreenIsCurrent` | |
| `Relations_proofs!ComponentsAreFound` | `[]ComponentsAreCycles` of the graph | `GraphsAssumption` |
| `Relations_proofs!OrdersAreTopological` | `[]SortedGraph` of the graph | `GraphsAssumption` |
| `Relations_proofs!ReductionsKeepReach` | `[]ReductionKeepsReach` of the graph | `GraphsAssumption` |

`LockAssumption` asks for `RenewEvery > Latency` and `2 * RenewEvery + 2 *
Latency <= Ttl`: an answer arrives before the next renewal is due, and a missed
renewal leaves room for one more. The defaults (60 s and 90 s, renewed every
third) satisfy it with answers within ten seconds; nothing in the code enforces it.
`ServiceAssumption` asks that an hour and a cooldown have a length, that a digest lists
something, that the venue
numbers its events (`Ordered`: its keyset is an order), and that the settings of
`http.ts` are whole and not negative (`Configured`); the `Service` run evaluates it.
`LivenessAssumption` asks that the time to live and the two timeouts are whole numbers.
`RelationsAssumption` says what a question is made of: its threshold is a number, its
dates are zero or later, each clause is negated somehow or not. Thresholds and values are
integers where the code has doubles; only their order is used.
`GraphsAssumption` says that a graph is built from a list of pairs.

**Nothing is lost.** `NoLostUpdate` speaks of readable books only, so the invariant
follows a version from the venue to the book. `History` says what a version is: one level
written, each state the one before it and that level. `Wire` and `Sockets` say that the
undelivered messages of a connected shard are the newest versions, in order and without
a gap, unless loss is on the list. `Seeds` is the middle: for an untainted seed in
flight that has read version `s`, the buffer holds every delivered version after `s`;
`Books` is the end: a book with no cause against it shows the last write of each level
up to the version last delivered. An install takes the snapshot and replays the buffer in
order, `Replay` choosing the last writer of each level; `Newest` proves that there is
one, and with `History` the result is the venue's book. `Unheard` adds that a book changed
in silence was installed and replayed nothing, which is `OnlySnapshotsUnheard`.

**Mutual exclusion.** `Exclusion` alone is not inductive: that two healthy runs
are not at work says nothing of the key. `HealthyRunsAreCovered` says it: a
healthy run whose renewal is due at `d` has a key that lives beyond `d` and an
answer, and one with a renewal under way has a key that lives until that command
has been executed. `CoveredHolds` derives from it that a healthy run's token is
in the key, and since a key holds one token, two such runs are the same one.
`OthersCovered` shows that no step of another process takes the key away:
every command but the acquisition compares tokens, and the acquisition needs an
expired key. `OwnCovered` goes through the process's own steps; `Tick` is where
`LockAssumption` is used, since time may only pass up to a timer that is due.

**A lost lock is noticed.** `Noticing` relates, for a run that was not cut off,
the clock to the next renewal and the last that worked: a run at work renews
within a period, gets an answer within the latency, and, if that is an error,
has its age checked. Without the proviso `JobLock_outage` refutes it.

**One open episode.** Workers write with no lock between them, so the theorem
rests on `Insert` alone meeting the partial unique index. `Grounded` says that what
a worker holds of the table, the row it selected and those it is about to
close, is there; updates and closings keep keys and never clear `resolved_at`.

**The table of one replica.** `OpenIsViolated` speaks of the end of a recording, so
`Tracked` follows it through: of what was promoted, all that is no longer to do has an
open row that says what stage 2 found (`Reflected`), or is being written; the row in
hand is still the row read; what is to be closed is just what is open and not promoted.
`Truncated` ties the promoted to the violated: all of them within the budget, as many as
the budget beyond it. With a second replica none of the three survives, and the theorems
say so by `OneReplica`. The refinement needs the same invariant: that the row read is
the row written makes `ever_confirmed` and the peak monotonic. `OpenEpisodeShown` turns
the abstract choice of a constraint's open episode into the row at hand, and
`OthersKept` is the frame: a write to one row leaves the episodes of other constraints.

**One announcement.** `OneClaimEach` says of each episode and each of the two
kinds of message that, if the row is unclaimed, nothing is posted and no replica
is posting, and if it is claimed, then posts and posting replicas together are at
most one. `ClaimStep` is the conditional statement that lets one replica
through, `PostsAfter` the step from posting to posted, `QuietStep` all the rest.
The transport's own repetition of a post whose answer was lost is a `copy` and is
not counted: no claim could prevent it.

**An earned escalation.** A replica compares what it loaded some time ago, so the
invariant must say that this is still what the channel last read. `Recorded`: the row of
an episode that is not excused has the value and time of its last message.
`Baseline`: what a replica knows of it is that row, until it posts. `Resending`: between
the post of an escalation and its record the message is ahead of the row, in the hand of
the replica that posted it. `Alone` is what makes this inductive: of all replicas at
most one is past its load, or every episode is excused. When a replica stops with an
escalation unrecorded, the episode is excused, and nothing else excuses one.

**A reminder.** Likewise of `SystemAlerts`: `Dated` says that the row of a signal has the
time of its last message; that it is ahead of it between the claim and the first post;
and behind it between a later post and its record. A signal is suppressed only if its
row is younger than a cooldown, and then so is the message. A failure moves the signal
to `trouble`, of which nothing is claimed.

**A whole digest.** That posts are one an hour and hold only their hour is not
inductive; `Owned` adds who holds the claim of an hour: a replica that is sending has
claimed, has not posted, and is the only one to send that hour. `ListsWhole` says of a
replica from its list to its post that it has all that was detected in its hour and is
unconfirmed, or late, or lists as many as it may. It survives the steps of recorders
because the hour of a list is over (`InTime`): what is inserted now and belongs to it is
late by definition, and an upgrade only takes from what is unconfirmed.

**The catalog.** `CatalogTypes` says what a row, a revision and an ingest are made of,
and `BeforeKept` that a row an ingest has loaded and locked is still what it loaded,
unless two ran at once. For `CrawlSettlesPresence`, `LoneCrawl` accounts for what a run
that is alone has returned so far: all of it is committed with this run's time or is in
the batch in hand, so that what the sweep finds unseen is what was not returned. For
`HistoryExplainsRow`, `Explained` says of each field that its revisions form a chain
which starts at what the market said at first and ends at the row; `AppendSays` and
`AppendExplains` extend the chain by one revision, and `CommitHistory` shows that a batch
appends just the revision that leads from the row it loaded to the row it writes. The
reference definition chooses the last step before a revision; that there is one is
`LeastOf`, by well-foundedness of the naturals. For `ExhaustedIsKept`, `QueueInv` adds who works
on what (`Work`): a worker that runs has a job that is active and nobody else's, so that what
fails has not failed before and, once failed for good, is not run again.

**A client's budget.** That no window of time sees too many requests says nothing
of the bucket. `Budgeted` does: its tokens and the requests since any given one
add up to at most the burst and what the rate has added since. A refill keeps it,
since it adds no more than the rate does and is cut at the burst; a request keeps
it by the token it takes, and is itself within the burst; `Spaced` follows at the
moment of a request and no later step disturbs it. `Patient` is of the other half:
a call that sleeps does so until it may go on, one that is awake may.

**What is missing.** `MissingIsUnknown` is of a call that has returned; `Accounted` says it
of one on its way, whatever part of an answer it got, in which order and at which attempt:
what was given is what was found, and what stands before the next batch has been answered
(`Answered`). That batches begin where the last one ended, and that the last one ends with
the list, makes the answered all of the wanted.

**The watcher's verdict.** `WatcherAgrees` is inductive together with
`HeardIsIndexed`: what the watcher has heard of since a book was last replaced is
in its index. Without that a flush would take a constraint from the dirty set and
report nothing of it. `UnmovedVerdict` is the frame: a constraint of which no
member moves is violated as before.

**A steady cache.** `SteadyStep` compares a client's answer with what any client has had,
so `CacheInv` ties the history to the state: what was served is no newer than what is
cached, which is no newer than the first statement of the query in flight (`Flight`).
That holds because there is one query at most; and since there is one, a client that
waits waits for it, and only while nothing is cached, so that a failure reaches nobody
who could have been shown something. That queries are a TTL apart is the last conjunct:
between them, the time since the last began and the time until the cache expires add up
to a TTL at least.

**Grace.** `ShellInv` says of each queue how its drain came to be where it is: forced
only when its time is over, closing or closed only when its job is or its time was. A
worker takes no job once its drain has begun, and `releasing` is entered when all drains
are over, so `GraceStep` holds of the step into it, of those in it and of the exit.
Nothing is claimed of a shutdown that was aborted while the server was closing.

**Verdicts, edges and costs.** `EdgesAreEarned` is an account kept both ways, of
accepted proposals by their edges and of edges by their proposals or extractions,
and needs that what a session presents is stored (`Types`), since `RecordVerdict`
reads the stored type. `PairsAreAskedOnce` counts: `Paid(p)` bounds the completions
for a pair, before it is stored, by the failures and the run that holds its answer, and
after, by the runs that found it before and may still ask. `Busy` runs are at most
one and the overlaps; a run that dies moves from one side of the inequality to the
other, and a completion of which nothing is kept is a failure as well; which is why `AskedOnce`
allows for exactly these.

**Entailments.** The edges are computed in one step, so the invariant only says that they
are what the extractors make of the catalog (`ExtractionInv`), and the work is in what
that means. `LadderEdgeFacts`, `TemporalEdgeFacts` and `ComplementEdgeFacts` say of the
two ends of an edge which parts of their questions agree and how the rest is ordered.
`BeyondWeaker` and `AffirmedMonotone` are the semantics: a higher threshold or an earlier
date makes a claim stronger, in each clause, if it is affirmed. For a complement the same
worlds make one clause true and the other false, if there is one clause (`OneClause`);
with more, a question and its negation may both be false.

**Adjacent edges.** A set of markets that no implication leaves and that has one rung has
every weaker one. Take the furthest rung of it up to the one wanted (`MinimumExists`, by
the well-foundedness of strict inclusion, since the library offers no induction here); if
it falls short, the next rung (`NextRung`) has an edge to it and is in the set as well.
`Upwards` and `Downwards` are the two directions of a ladder; a chain has one.

**Components.** That the components are the classes of markets which imply each other
says nothing until the walk ends, so `WalkInv` says what each of its frames knows. The
stack holds the numbered nodes whose component is open, in the order of their numbers,
and every frame is on it (`StackInv`). A frame owns what was numbered since it was pushed
and before the next one was (`Owns`); of the edges its nodes have looked at, none leads to
a node on the stack below the frame's low (`LookInv`), and none from what is done leads
anywhere but to what is done. The low is the number of a node that the frame reaches
(`LowInv`), a frame reaches all that is above it, and what is on the stack without a frame
reaches something below itself (`ReachInv`). When a frame whose low is its own number is left,
what is above it reaches it, by the smallest number that does not; and nothing leads
below: hence it is a whole class, and `ComponentInv` has one more. `GlanceStep` is where
`OnStack` matters: a low taken from a node that is done would belong to another class.
`WalksAreCycles` is about `Walk`, which follows the first neighbour within the component:
by the pigeonhole principle it comes back within as many steps as there are members.

**A topological order.** Dropping the edges within components leaves no cycle. The
argument for that is not by paths: `KeptIsAcyclic` gives, in any set of nodes, one to
which no kept edge leads from within it, namely one that reaches the most, since a kept
edge leads from a node that reaches strictly more. `SortInv` keeps, of every node, the
number of kept edges to it from nodes not yet placed (`Waiting`), and says that the
queue holds just the nodes without such edges. When the queue is empty all nodes are
placed (`AllPlaced`): of those that are not, one would have no edge from another. An
edge counts as often as the list has it, as in the code.

**The same reach.** `ReduceInv` is about the nodes in the reverse of that order: of a
node that is reduced every kept edge is still a path of what is left; the set of a node
is there as long as an edge to it is to come, and has nothing that the node does not
reach along what is left. An edge is cut only because its end is in the set of another
neighbour, so it is a path without the edge; that the path does not use the edge itself
is where the order comes in. `Inherited` gives a set to the node that needs it last,
which is safe since nobody asks for it again (`Needing`). `DescendantsFacts` says of the
recursive function that stands for `#reachable` that as many rounds as there are nodes
find everything: a round that adds nothing is the last, and rounds that all add
something run out of nodes. That the function exists is proved by a least
counterexample, as are the powers of `Walk`'s step (`Iterates`).

**A fresh screen.** A price in `screened` is that of a market which was quoted, was asked
about in vain, has a midpoint, or has lost one. `ScreenInv` says the same of the quotes
still to be read: a market loaded that is in no later batch has been asked about already or
had a midpoint when the check began, and a midpoint lost since then is in `moved`. What it
rules out is a market that goes unasked because a row of it is there.

**Types.** That of the feed is more than bookkeeping: `Replay` chooses the last
writer of a level among the buffered changes, and `Newest` proves, by the
well-foundedness of strict inclusion on finite sets, that there is one.

Model-checked only: `CoherenceCheck`'s prices and sizes (`WholeTradePays`, `BestSize`,
`Auditable`) and `DashboardFamilies`' page (`FamilyPage`). `WholeTradePays` and `BestSize`
do not hold of every book: a fee that vanishes below `MinFee` bends the profit, and the
searches by halves and thirds rely on its shape. `Auditable` and `FamilyPage` speak of
what `SetToSortSeq` returns, which rests on `SortSeq` of the module TLC: the prover
leaves that operator unexpanded, so not even the length of a sorted side is known to it.
(`RelationGraph` puts in order by counting, in `Picked`, and that is proved.)

The library's induction theorems take an operator, which no installed prover can
instantiate; `WFMin` takes a set, which suffices for a least number, a maximal element,
and thereby for the existence of a recursive function (`LeastExists`, `Newest`,
`Iterates`). Liveness (`EventuallyRepaired`, `FollowedUp`, `ViolationIsFound`,
`CatchesUp`, the second half of `ShutsDown`) and ENABLED are out of the provers' reach.
No module declares a RECURSIVE operator.

## Not modelled

- *Wording and rendering*: `alerts/format.ts`, `report/*`, the dashboard's markup
  and charts. Pure functions of what they are given, whose results nothing in the
  system decides by; no property is about a message's words.
- *Service shell, but for starting and stopping*: HTTP routes, metrics,
  configuration, migrations. They keep nothing that another part decides by; what a
  deploy does to the rest (an aborted run, an attempt given back, a process that
  dies) is chosen freely in the modules that suffer it.
- *English*: how the extractors' patterns recognise a question, and bands
  (`relations/bands.ts`). A pattern is wrong about words, and TLC has none.
- *The model that proposes*: prompts, the schema of its answers, calibration,
  similarity. Any answer may come.
- *Tolerant parsing* of the venues' records, the price and fee endpoints, tick
  sizes: what is dropped is dropped record by record, without state.
- *Read-only queries*: lifetime statistics, the report's rankings and medians, the
  endpoints of the dashboard that select and return.
- *Rounding*: prices, sizes and money are integers; the code's are doubles.
- *Retention and statistics* of the queues, the limit of 100
  follow-ups a check, the reason's magnitude (`liveMagnitude`, `check.ts:349-366`).

## Plan

What is left, in the order of what it would add:

1. **A proof of `Auditable`**, which needs the sorts of `CoherenceCheck` by counting, as
   `RelationGraph` has them, and that the recursive functions of pricing exist (by a
   least counterexample).
2. **`CatalogIngest` with `JobLock` in place of its lock**, so that a lost lock is
   what an outage does and not a choice.
