CONSTANTS
  Clients <- MCClients
  ChldCap = 1
SPECIFICATION FairSpec
INVARIANTS
  SuccessIsReal
  OutputBeforeStatus
  TruthfulUnderSupervision
PROPERTIES
  SessionEnds
  NoZombieStays
\* The process has ended.
CHECK_DEADLOCK FALSE
