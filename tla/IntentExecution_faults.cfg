SPECIFICATION FairSpec
CONSTANTS
  i1 = i1
  i2 = i2
  b1 = b1
  w1 = w1
  w2 = w2
  Intents <- OneIntent
  Bindings <- OneBinding
  Workers <- TwoWorkers
  BindingOf <- SameBinding
  MaxAttempts = 3
  MaxStalled = 1
  Faults = {"ambiguous", "db", "crash", "stall"}
  NoIntent = NoIntent
  NoWorker = NoWorker
INVARIANTS
  TypeOK
  ClaimExclusive
  ExecutedMeansOrder
  KillSwitchBound
  CallBudget
PROPERTIES
  ReportedIsLast
  VerdictIsFinal
  JobsDrain
