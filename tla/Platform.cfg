SPECIFICATION PlatformSpec
CONSTANTS
  Tabs = {t1, t2}
  MaxTokens = 3
  MaxCalls = 2
  SessionFaults = {"network", "limit", "expire", "disable"}
  Users = {u1, u2}
  Boss = u1
  Updates = {r1, r2}
  Logins = {l1, l2}
  Profiles <- MCProfiles
  Prices <- MCPrices
  MaxBars = 4
  Lookback = 2
  Configs <- MCConfigs
  InitialEquity = 4
  Precision = 4
  Horizon = 5
  Gains <- MCGains
  SessionLength = 2
  DayLength = 4
  Modes = {"ALL", "ANY", "SEQUENCE"}
  Blocks = 2
  Stride <- MCStride
  WindowBars = 2
  Caps = {1, 2}
  ResetBars = 2
  PriceDistance = 1
  SignalPrices = {0, 1, 2}
  Bars = 6
  Slots = {s1, s2}
  MaxOpen = 1
  CacheTtl = 1
  StaleAfter = 1
  MaxPositions = 1
  Executions = {e1, e2, e3}
  BacktestFaults = {"preview", "db", "crash"}
  BarTicks = 1
  FetchBars = 2
  HistoricalBars = 2
  Lag = 1
  RetryMax = 2
  BufferSize = 2
  Ticks = 4
  MaxPending = 1
  PushFaults = {"lost", "late", "restart", "status", "fetch", "weekend"}
  TrapPlans <- MCTrapPlans
  TrapBars <- MCTrapBars
  Cycles = 1
INVARIANTS
  PlatformTypeOK
  CookieIsLive
  SessionsNeedLogins
  AdminRemains
  LockedProfit
  ClusterBound
  RunIsWhole
  NoHole
  CompletionCloses
PROPERTIES
  RoomWasRecent
  DrawdownHaltIsFinal
  FlushInOrder
CHECK_DEADLOCK FALSE
