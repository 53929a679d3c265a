SPECIFICATION FairSpec
CONSTANTS
  i1 = i1
  i2 = i2
  b1 = b1
  w1 = w1
  w2 = w2
  Intents <- TwoIntents
  Bindings <- OneBinding
  Workers <- OneWorker
  BindingOf <- SameBinding
  MaxAttempts = 2
  MaxStalled = 1
  Faults = {"enqueue"}
  NoIntent = NoIntent
  NoWorker = NoWorker
PROPERTIES
  IntentsSettle
