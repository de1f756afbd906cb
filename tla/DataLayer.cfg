CONSTANTS
  Thread = {t1, t2}
  Key = {1, 2}
  Node = {n1, n2, n3}
  Head = Head
  NULL = NULL
  NoCall = NoCall
SPECIFICATION LockFreeSpec
INVARIANTS
  TypeOK
  Sorted
  PrevLeadsBack
  NoDangling
PROPERTIES
  Linearizable
  LockFree
  ContainsFinishes
