SPECIFICATION Spec
CONSTANTS
  BufSizes = {0, 128}
  Content = {1, 2}
  MaxAllocs = 5
INVARIANTS
  LiveBlocksIntact
  WithinBuffer
  NoSpillUnlessRepeated
CHECK_DEADLOCK FALSE
