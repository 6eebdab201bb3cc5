SPECIFICATION RelationsSpec
CONSTANTS
  p1 = p1
  p2 = p2
  Proposer = {p1, p2}
  Reviewer = {"r1"}
  Market = {1, 2, 3}
  Derivable <- MCDerivable
  Answers = {"implied_by", "unrelated"}
  Shown = {"implies", "implied_by", "complement", "mutually_exclusive"}
  Limit = 2
  MaxRuns = 2
  MaxExtracts = 1
  MaxFaults = 1
  Graphs <- MCGraphs
  Families <- MCFamilies
  Rows = 3
  Exclusive = {1}
  Clause = {1, 2}
  Time = {1, 2}
  Value = {0, 1, 2, 3}
  Checks <- MCChecks
  QuoteBatch = 2
  MaxConfirmations = 2
  Scale = 5
  Epsilon = 0
  RateScale = 10
  FeeRate = 1
  MinFee = 1
  MinSize = 2
  MinProfit = 60
  MinEdge = 13
  SnapshotDepth = 1
  MaxMoves = 2
  PageMarket = {1, 2, 3}
  EventOf <- MCEventOf
  PageGroup = {"g", "h"}
  GroupMembers <- MCGroupMembers
  FamilyLimit = 1
  Prices = {0, 1, 2}
  PageScale = 2
SYMMETRY MCSymmetry
CHECK_DEADLOCK FALSE
INVARIANTS
  ComponentsAreCycles SortedGraph ReductionKeepsReach
  OnlyVerdictsMakeEdges AskedOnce
  PlainEdgesHold AdjacentIsEnough
  WholeTradePays BestSize ScreenIsCurrent Auditable
  FamilyPage
PROPERTY VerdictIsFinal
