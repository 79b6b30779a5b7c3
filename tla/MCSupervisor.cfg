CONSTANTS
  Confs <- MCConfs
  SigCap = 2
SPECIFICATION FairSpec
INVARIANTS
  PetsTheLiveDevice
  RebootAfterEntrypoint
  AttendedWhileWaiting
PROPERTIES
  WatchdogBacksReboot
  ExitReboots
\* The machine has restarted, or no process is left.
CHECK_DEADLOCK FALSE
