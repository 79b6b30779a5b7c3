CONSTANTS
  Second = 5
  Timeout = 14
  Defaults <- MCDefaults
  Handover = 3
  Latency = 2
SPECIFICATION WFairSpec
INVARIANTS
  AttendedNeverFires
PROPERTY KillFires
\* The device is off and nobody is left, or the machine has been reset.
CHECK_DEADLOCK FALSE
