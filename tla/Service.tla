------------------------------ MODULE Service ------------------------------
(***************************************************************************)
(* What the service does beside its checks: alerts, the digest, alerts about  *)
(* itself, the catalog's ingest, the clients of its venues.  Each behaviour   *)
(* is of one part, and the variables of the others are idle; the alerts' are   *)
(* those of the module extended.                                              *)
(***************************************************************************)
EXTENDS AlertDelivery

CONSTANTS
  HourLength, DigestEpisode, DigestLimit,                            \* the digest
  Reporter,           \* the replica that alerts about itself
  SystemCooldown, IngestStale, RateHits, RateWindow, QueueDepth, FailureRate, MinSample,
  Market, Event, Field, Value, Job, Runner, Inline, BatchSize, Attempts,   \* the catalog
  Clob, Rest,         \* two uses of the venues: [client, venueOf, call, through, asks]
  Unit, Rate, Capacity, RequestBatch, MaxRetries, Base, MaxBackoff, MaxRetryAfter, Headers,
  Bound               \* of each part: its time, its work, its faults

VARIABLES
  part,
  episodes, claimed, done, late,                              \* the digest
  jobs, posts,                                                \* of several parts
  lastIngest, depth, counters, previous, runs, rows, trouble, work,   \* alerts on itself
  listed, content, edits, row, revisions, version, first, letters, lock, ingest,
  latest, collided,                                           \* the catalog
  bucket, calls, sent, earliest, told                             \* the venues

alertVars   == <<status, edge, closedAt, delivery, posted, todo, quoted, ended, known, current,
                 excused>>
digestVars  == <<episodes, claimed, done, late>>
systemVars  == <<lastIngest, depth, counters, previous, runs, rows, trouble, work>>
catalogVars == <<listed, content, edits, row, revisions, version, first, letters, lock, ingest,
                 latest, collided>>
venueVars   == <<bucket, calls, sent, earliest, told>>

serviceVars == <<part, clock, now, pc, faults, jobs, posts, alertVars, digestVars, systemVars,
                 catalogVars, venueVars>>

-----------------------------------------------------------------------------
Digest == INSTANCE HourlyDigest WITH
  Episode <- DigestEpisode, ListLimit <- DigestLimit, MaxTime <- Bound.digest

System == INSTANCE SystemAlerts WITH
  Replica <- {Reporter}, Cooldown <- SystemCooldown, MaxTime <- Bound.system,
  MaxWork <- Bound.work

Catalog == INSTANCE CatalogIngest_proofs WITH
  MaxTime <- Bound.catalog, MaxEdits <- Bound.edits, MaxFaults <- Bound.crashes, run <- ingest

Books == INSTANCE VenueClients_proofs WITH
  Client <- Clob.client, VenueOf <- Clob.venueOf, Call <- Clob.call, Through <- Clob.through,
  Asks <- Clob.asks, BatchSize <- RequestBatch, MaxTime <- Bound.books

Others == INSTANCE VenueClients_proofs WITH
  Client <- Rest.client, VenueOf <- Rest.venueOf, Call <- Rest.call, Through <- Rest.through,
  Asks <- Rest.asks, BatchSize <- RequestBatch, MaxTime <- Bound.others

\* An hour and a cooldown have a length, a digest lists something, the venue numbers its
\* events, and http.ts counts in whole ticks and units.
ASSUME ServiceAssumption ==
  /\ HourLength \in Nat \ {0} /\ SystemCooldown \in Nat \ {0} /\ DigestLimit \in Nat \ {0}
  /\ Catalog!Ordered /\ Books!Configured /\ Others!Configured

IdleAlerts ==
  /\ status = 0 /\ edge = 0 /\ closedAt = 0 /\ delivery = 0
  /\ posted = [e \in Episode |-> <<>>]
  /\ todo = 0 /\ quoted = 0 /\ ended = 0 /\ known = 0 /\ current = 0 /\ excused = {}
IdleDigest == episodes = 0 /\ claimed = 0 /\ done = 0 /\ late = 0
IdleSystem ==
  /\ lastIngest = 0 /\ depth = 0 /\ counters = 0 /\ previous = 0 /\ runs = <<>>
  /\ rows = 0 /\ trouble = {} /\ work = 0
IdleCatalog ==
  /\ listed = 0 /\ content = 0 /\ edits = 0 /\ row = 0 /\ revisions = 0 /\ version = 0
  /\ first = 0 /\ letters = 0 /\ lock = 0 /\ ingest = 0 /\ latest = 0 /\ collided = 0
IdleVenues == bucket = 0 /\ calls = 0 /\ sent = 0 /\ earliest = 0 /\ told = 0

ServiceInit ==
  \/ /\ part = "alerts" /\ Init
     /\ jobs = 0 /\ posts = 0 /\ IdleDigest /\ IdleSystem /\ IdleCatalog /\ IdleVenues
  \/ /\ part = "digest" /\ Digest!Init
     /\ now = 0 /\ pc = 0 /\ IdleAlerts /\ IdleSystem /\ IdleCatalog /\ IdleVenues
  \/ /\ part = "system" /\ System!Init
     /\ now = 0 /\ pc = 0 /\ jobs = 0 /\ IdleAlerts /\ IdleDigest /\ IdleCatalog /\ IdleVenues
  \/ /\ part = "catalog" /\ Catalog!Init
     /\ now = 0 /\ posts = 0 /\ IdleAlerts /\ IdleDigest /\ IdleSystem /\ IdleVenues
  \/ /\ part \in {"books", "others"}
     /\ IF part = "books" THEN Books!Init ELSE Others!Init
     /\ clock = 0 /\ pc = 0 /\ faults = 0 /\ jobs = 0 /\ posts = 0
     /\ IdleAlerts /\ IdleDigest /\ IdleSystem /\ IdleCatalog

ServiceNext ==
  /\ UNCHANGED part
  /\ \/ /\ part = "alerts" /\ Next
        /\ UNCHANGED <<jobs, posts, digestVars, systemVars, catalogVars, venueVars>>
     \/ /\ part = "digest" /\ Digest!Next
        /\ UNCHANGED <<now, pc, alertVars, systemVars, catalogVars, venueVars>>
     \/ /\ part = "system" /\ System!Next
        /\ UNCHANGED <<now, pc, jobs, alertVars, digestVars, catalogVars, venueVars>>
     \/ /\ part = "catalog" /\ Catalog!Next
        /\ UNCHANGED <<now, posts, alertVars, digestVars, systemVars, venueVars>>
     \/ /\ \/ part = "books" /\ Books!Next
           \/ part = "others" /\ Others!Next
        /\ UNCHANGED <<clock, pc, faults, jobs, posts, alertVars, digestVars, systemVars,
                       catalogVars>>

ServiceSpec == ServiceInit /\ [][ServiceNext]_serviceVars

-----------------------------------------------------------------------------
(* The properties, each of its part: see there for what they say *)

DigestIsWhole == part = "digest" => Digest!DigestIsWhole
Reminded      == [][part = "system" => System!Reminds]_<<posts, runs>>

HistoryExplainsRow   == part = "catalog" => Catalog!HistoryExplainsRow
ExhaustedIsKept      == part = "catalog" => Catalog!ExhaustedIsKept
CrawlSettlesPresence == [][part = "catalog" => Catalog!SettlesPresence]_pc

Disciplined ==
  /\ part = "books"  => Books!Disciplined
  /\ part = "others" => Others!Disciplined
MissingIsUnknown ==
  /\ part = "books"  => Books!MissingIsUnknown
  /\ part = "others" => Others!MissingIsUnknown

=============================================================================
