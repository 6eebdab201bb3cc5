SPECIFICATION Spec
CONSTANTS
  p1 = p1
  p2 = p2
  Process = {p1, p2}
  Ttl = 6
  RenewEvery = 2
  Latency = 1
  MaxTime = 12
  MaxRuns = 2
  MaxTroubles = 2
SYMMETRY MCSymmetry
CHECK_DEADLOCK FALSE
INVARIANTS TypeOK Exclusion AnsweredRunStops
