SPECIFICATION Spec
CONSTANTS
  i1 = i1
  i2 = i2
  b1 = b1
  w1 = w1
  w2 = w2
  Intents <- OneIntent
  Bindings <- OneBinding
  Workers <- OneWorker
  BindingOf <- SameBinding
  MaxAttempts = 3
  MaxStalled = 1
  Faults = {"ambiguous"}
  NoIntent = NoIntent
  NoWorker = NoWorker
SYMMETRY Symmetry
INVARIANTS
  AtMostOneOrder
