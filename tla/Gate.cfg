SPECIFICATION FairSpec
CONSTANTS
  Turn = {t1}
  Loop = {l1}
  Decider = {d1}
  Subject <- MCSubject
  BaseCeiling = "network"
  Elevation = {"write"}
  Ttl = 1
  MaxApprovals = 2
  MaxCalls = 2
  MaxCrashes = 1
  MaxTime = 2
CHECK_DEADLOCK FALSE
INVARIANTS EffectsAreAuthorised
PROPERTIES ReceiptsSettleRuns
