SPECIFICATION Spec
CONSTANTS
  t1 = t1
  s1 = s1
  l1 = l1
  l2 = l2
  f1 = f1
  f2 = f2
  Token = {t1}
  Level = {l1, l2}
  Shard = {s1}
  ShardOf <- MCShardOf
  Fetch = {f1, f2}
  TokenOrder <- MCTokenOrder
  Limit = 1
  HashHistory = 2
  CursorWrap = 1
  MaxVersion = 2
  MaxFaults = 1
  MaxStarts = 1
  StampSteps = {0, 1}
  Lossy = FALSE
  Pushes = TRUE
SYMMETRY MCSymmetry
CHECK_DEADLOCK FALSE
INVARIANT SocketFirstLosesNothing
