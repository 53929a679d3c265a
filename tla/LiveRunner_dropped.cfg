SPECIFICATION Spec
CONSTANTS
  t1 = t1
  t2 = t2
  Ticks <- OneTick
  MaxBar = 2
  Keys <- AllKeys
  EntryKeys <- OnlyEntry
  Emits <- Composed
  Faults = {"crash"}
INVARIANTS
  NoEntryDropped
