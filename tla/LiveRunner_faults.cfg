SPECIFICATION Spec
CONSTANTS
  t1 = t1
  t2 = t2
  Ticks <- TwoTicks
  MaxBar = 2
  Keys <- AllKeys
  EntryKeys <- OnlyEntry
  Emits <- SongTrap
  Faults = {"db", "crash", "gap", "pause"}
SYMMETRY TickSymmetry
INVARIANTS
  TypeOK
  CheckpointIsFold
  CheckpointCoversEvents
  MarkerReleased
  LinksFresh
