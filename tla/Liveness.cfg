SPECIFICATION LivenessSpec
CONSTANTS
  r1 = r1
  e1 = e1
  Market = {1, 2}
  Key = {"a", "b"}
  Members <- MCMembers
  Cooldown = 2
  Attempts = 2
  MaxTime = 2
  MaxChanges = 3
  MaxJobs = 1
  MaxFaults = 1
  Replica = {r1}
  Episode = {e1}
  AlertCooldown = 1
  Factor = 2
  Floor = 1
  Lookback = 2
  MaxEdge = 2
  AlertTime = 4
  AlertFaults = 1
  Client = {"c1", "c2"}
  TTL = 2
  MaxVersion = 2
  CacheFaults = 2
  ShutdownTimeout = 2
  DrainTimeout = 2
CHECK_DEADLOCK FALSE
INVARIANTS WatcherAgrees
PROPERTIES ViolationIsFound FollowedUp Steady CatchesUp ShutsDown
