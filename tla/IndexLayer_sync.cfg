CONSTANT
  Settings <- Short
SPECIFICATION Spec
INVARIANT
  NoSynchronizationNeeded
CHECK_DEADLOCK FALSE
