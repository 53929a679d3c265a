SPECIFICATION FairSpec
CONSTANTS
  e1 = e1
  r1 = r1
  r2 = r2
  w1 = w1
  w2 = w2
  Events <- OneEvent
  Replays <- OneReplay
  EventOf <- SameEvent
  Workers <- TwoWorkers
  MaxAttempts = 2
  MaxStalled = 1
  Faults = {"ambiguous", "enqueue"}
  NoJob = NoJob
  NoWorker = NoWorker
PROPERTIES
  DeliveriesSettle
