SPECIFICATION MCSpec
CONSTANTS
  t1 = t1
  t2 = t2
  s1 = s1
  s2 = s2
  l1 = l1
  l2 = l2
  f1 = f1
  f2 = f2
  Token = {t1,t2}
  Level = {l1, l2}
  Shard = {s1,s2}
  ShardOf <- MCShardOf
  Fetch = {f1, f2}
  TokenOrder <- MCTokenOrder
  Limit = 1
  HashHistory = 2
  CursorWrap = 2
  MaxVersion = 2
  MaxFaults = 1
  MaxStarts = 1
  StampSteps = {0, 1}
  Lossy = TRUE
  Pushes = TRUE
SYMMETRY MCSymmetry
CHECK_DEADLOCK FALSE
INVARIANTS TypeOK NoLostUpdate OnlySnapshotsUnheard
