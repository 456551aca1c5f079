SPECIFICATION FairSpec
CONSTANTS
  w1 = w1
  text = text
  file = file
  NoItem = NoItem
  Worker <- OneWorker
  Item <- Items
  Batch <- Batches
  MaxAttempts = 2
  MaxCrashes = 1
  MaxStalls = 1
  MaxRequeues = 1
INVARIANTS AcceptedMeansDelivered
PROPERTIES ItemsSettle ReceiptsAreProjected
