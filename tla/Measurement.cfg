SPECIFICATION FairSpec
CONSTANTS
  NbThreads = 2
  Key = {1, 2}
  Populations = {{1}}
  Mode <- Modes
  Room = 2
  MaxOps = 3
  NoCall = NoCall
INVARIANTS
  AddsUp
  ModesKept
  CrossTogether
PROPERTIES
  GrowsOutsideAlternate
  Ends
CHECK_DEADLOCK FALSE
