SPECIFICATION Spec
CONSTANTS
  r1 = r1
  r2 = r2
  e1 = e1
  e2 = e2
  Replica = {r1, r2}
  Episode = {e1}
  Cooldown = 1
  Factor = 2
  Floor = 1
  Lookback = 4
  MaxEdge = 2
  MaxTime = 2
  MaxFaults = 0
INVARIANT EscalationIsEarned
