SPECIFICATION LayoutSpec
CONSTANTS
  MaxSockets = 3
  MaxCores = 3
  MaxThreads = 7
INVARIANTS
  TableIsBijection
  OwnCoresUnlessOvercommitted
CHECK_DEADLOCK FALSE
