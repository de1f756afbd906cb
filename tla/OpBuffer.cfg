CONSTANTS
  Key = {1, 2}
  Node = {n1}
  NULL = NULL
  BufSize = 5
SPECIFICATION FairSpec
INVARIANTS
  TypeOK
  LifetimeBound
PROPERTIES
  Fifo
  FrozenAfterWrap
  DrainsBeforeWrap
CHECK_DEADLOCK FALSE
