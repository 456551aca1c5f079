SPECIFICATION FairSpec
CONSTANTS
  p1 = p1
  a1 = a1
  a2 = a2
  m1 = m1
  m2 = m2
  Proposal <- MCProposal
  Process <- MCProcess
  Daemon = daemon
  NoProcess = nobody
  Item <- MCItem
  NoItem = NoItem
  Content = {"x", "y"}
  MaxEdits = 1
  MinObservations = 1
  MaxFaults = 1
  Evolvable <- MCEvolvable
CHECK_DEADLOCK FALSE
INVARIANTS AppliedOnce RollbackAgrees
PROPERTIES PromptIsGoverned RegressionsEnd
