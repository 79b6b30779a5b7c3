CONSTANTS
  Configs <- MCConfigs
  MaxBuilds = 3
  MaxAtOnce = 2
SPECIFICATION Spec
INVARIANTS
  EntriesWhole
  EntryIsItsKey
  SameWinner
PROPERTIES
  HitDelivers
\* All builds have ended.
CHECK_DEADLOCK FALSE
