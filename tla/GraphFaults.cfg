SPECIFICATION Spec
CONSTANTS
  MaxAttempts = 3
  MaxRetries = 1
  RepeatLimit = 3
  PhaseGates = TRUE
  Modes <- BothModes
  Resumable <- AnySuspension
  MaxDenials = 1
  MaxCrashes = 1
  MaxResumes = 1
  MaxPlans = 4
CHECK_DEADLOCK FALSE
INVARIANTS CheckedResultIsPersisted
PROPERTIES RepeatIsSameCall
