SPECIFICATION MCSpec
CONSTANTS
  w1 = w1
  w2 = w2
  k1 = k1
  k2 = k2
  k3 = k3
  Worker = {w1}
  Key = {k1, k2}
  Budget = 1
  Partial = TRUE
  MaxProfit = 2
  MaxRow = 3
  MaxChecks = 4
  MaxFaults = 2
CHECK_DEADLOCK FALSE
INVARIANTS OneOpenEpisode OpenIsViolated
PROPERTIES EpisodeLifecycleHolds CompleteCheckCloses
