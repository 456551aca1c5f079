SPECIFICATION FairSpec
CONSTANTS
  Driver = {d1}
  Control = control
  Daemon = daemon
  NoOwner = nobody
  LoopKind = {"turn", "scheduled"}
  Outcome <- MCOutcome
  MaxVersion = 2
  MaxGates = 1
  MaxFaults = 1
CHECK_DEADLOCK FALSE
INVARIANTS CancelIsCaused SuccessIsConverged
PROPERTIES OpensSettle ResultsAreProjected DecidedWaitsEnd
