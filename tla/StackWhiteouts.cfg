SPECIFICATION Spec
CONSTANTS
  Paths <- AllPaths
  Entries <- AllEntries
  Layers = 2
  MaxEntries = 4
  MaxPulls = 2
INVARIANT WhiteoutsHonored
