SPECIFICATION FairMirrorSpec
CONSTANTS
  t1 = t1
  t2 = t2
  r1 = r1
  r2 = r2
  Trades <- OneTrade
  Requests <- OneRequest
  Worker = Worker
  Moves <- NoFills
  NoTrade = NoTrade
  MaxAttempts = 2
  MaxStalled = 1
  SyncFaults = {"bridge", "db", "enqueue", "crash"}
  MaxFaults = 2
INVARIANTS
  MirrorTypeOK
  CleanSyncIsExact
PROPERTIES
  RunsSettle
  JobMirrorsTrade
