SPECIFICATION Spec
CONSTANTS
  w1 = w1
  w2 = w2
  k1 = k1
  k2 = k2
  k3 = k3
  Worker = {w1}
  Key = {k1, k2}
  Budget = 1
  Partial = FALSE
  MaxProfit = 1
  MaxRow = 2
  MaxChecks = 3
  MaxFaults = 0
CHECK_DEADLOCK FALSE
PROPERTY ClosedBecauseSatisfied
