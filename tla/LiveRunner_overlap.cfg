SPECIFICATION FairSpec
CONSTANTS
  t1 = t1
  t2 = t2
  Ticks <- TwoTicks
  MaxBar = 3
  Keys <- AllKeys
  EntryKeys <- OnlyEntry
  Emits <- SongTrap
  Faults = {"gap"}
INVARIANTS
  EntriesReachLanes
PROPERTIES
  BarsEvaluated
