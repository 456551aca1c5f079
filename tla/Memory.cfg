SPECIFICATION JobsFairSpec
CONSTANTS
  e1 = e1
  e2 = e2
  m1 = m1
  realtime = realtime
  daemon = daemon
  Item <- MCItem
  NoItem = NoItem
  Content = {"x"}
  MaxEdits = 1
  Episode <- MCEpisode
  Session = {"s"}
  SessionOf <- MCSessionOf
  Goal = {g1}
  Worker <- MCWorker
  BatchOf <- MCBatchOf
  NoWorker = NoWorker
  MaxEvents = 3
CHECK_DEADLOCK FALSE
INVARIANTS TranscriptsAreLearned
PROPERTIES EpisodesAreLearned
