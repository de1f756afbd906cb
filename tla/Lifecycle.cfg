SPECIFICATION FairSpec
CONSTANTS
  NbThreads = 2
  Initial = {0, 3, 5, 16}
  MaxUpdates = 1
  UnsignedRange = 65536
INVARIANTS
  ResetOnce
  PopulatesInitial
  CleanupSafe
PROPERTY
  EndsWithTwoEach
CHECK_DEADLOCK FALSE
