CONSTANT
  Settings <- All
SPECIFICATION Spec
INVARIANTS
  ChainMirrorsJobs
  LevelCountsRows
  TowersAnchored
  EntryIsNear
  NeverLowers
PROPERTY
  RaisesOnlyLive
CHECK_DEADLOCK FALSE
