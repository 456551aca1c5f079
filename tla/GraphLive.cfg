SPECIFICATION FairSpec
CONSTANTS
  MaxAttempts = 4
  MaxRetries = 3
  RepeatLimit = 4
  PhaseGates = FALSE
  Modes <- BothModes
  Resumable <- AnsweredWaits
  MaxDenials = 0
  MaxCrashes = 0
  MaxResumes = 2
  MaxPlans = 9
CHECK_DEADLOCK FALSE
INVARIANTS ReplyIsCurrent YieldsStayParked
PROPERTIES Settles ExecutesLatestPlan
