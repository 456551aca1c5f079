SPECIFICATION LedgerFairSpec
CONSTANTS
  d1 = d1
  d2 = d2
  g1 = g1
  g2 = g2
  g3 = g3
  Driver <- TwoDrivers
  NoDriver = NoDriver
  Grant <- ThreeGrants
  NoGrant = NoGrant
  MaxConcurrent = 1
  CallBudget = 2
  TokenBudget = 7
  CostBudget = 6
  QpsLimit = 2
  ModelRequest <- Requests
  Usage <- Reports
CHECK_DEADLOCK FALSE
INVARIANTS SlotsAreGrants WithinLimits
PROPERTIES SlotsAreFreed
