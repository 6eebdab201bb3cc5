SPECIFICATION MCSpec
CONSTANTS
  r1 = r1
  r2 = r2
  v1 = v1
  v2 = v2
  Replica = {r1, r2}
  Episode = {e1}
  Cooldown = 1
  Factor = 2
  Floor = 1
  Lookback = 4
  MaxEdge = 2
  MaxTime = 1
  MaxFaults = 1
  HourLength = 1
  DigestEpisode = {x, y, z}
  DigestLimit = 2
  Reporter = r
  SystemCooldown = 2
  IngestStale = 1
  RateHits = 1
  RateWindow = 1
  QueueDepth = 0
  FailureRate = 2
  MinSample = 2
  Market = {m1}
  Event = {1, 2}
  Field = {question}
  Value = {v1, v2}
  Job = {j1}
  Runner = {worker, shell}
  Inline = {shell}
  BatchSize = 1
  Attempts = 2
  Clob <- MCClob
  Rest <- MCRest
  Unit = 2
  Rate = 1
  Capacity = 3
  RequestBatch = 2
  MaxRetries = 1
  Base = 1
  MaxBackoff = 1
  MaxRetryAfter = 2
  Headers <- MCHeaders
  Bound <- MCBound
SYMMETRY MCSymmetry
CHECK_DEADLOCK FALSE
INVARIANTS
  OneAnnouncement LoneEscalationIsEarned DigestIsWhole
  HistoryExplainsRow ExhaustedIsKept Disciplined MissingIsUnknown
PROPERTIES Reminded CrawlSettlesPresence
