CONSTANTS
  Confs <- MCConfs
  SigCap = 2
SPECIFICATION FairSpec
PROPERTY StartFailureReboots
CHECK_DEADLOCK FALSE
