SPECIFICATION Spec
CONSTANTS
  Inputs <- MCInputs
  Batch = 2
  Limit = 2
  Scale = 5
  Epsilon = 0
  RateScale = 10
  Rate = 1
  MinFee = 1
  MinSize = 2
  MinProfit = 60
  MinEdge = 13
  SnapshotDepth = 1
  MaxMoves = 0
CHECK_DEADLOCK FALSE
INVARIANT TradePays
