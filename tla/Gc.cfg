SPECIFICATION Spec
CONSTANTS
  t1 = t1
  t2 = t2
  a1 = a1
  a2 = a2
  a3 = a3
  a4 = a4
  Thread <- Threads
  Addr <- Addrs
  Start = {a1}
  MAX_THREADS = 2
  VERSION_MAX = 3
  MaxStarts <- Starts
  MaxLives <- Lives
SYMMETRY Sym
INVARIANT Reclaims
CHECK_DEADLOCK FALSE
