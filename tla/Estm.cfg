SPECIFICATION Spec
CONSTANTS
  Threads <- Two
  Addresses = {1, 2}
  Bytes = {1, 2}
  Settings <- All
CHECK_DEADLOCK FALSE
INVARIANTS LocksAnchored Opaque Serializable
