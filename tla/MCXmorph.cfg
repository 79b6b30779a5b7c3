CONSTANTS
  Configs <- MCConfigs
  Confs <- MCConfs
  MaxRuns = 2
  SigCap = 1
SPECIFICATION XFairSpec
PROPERTY KeepsDeadMan
CHECK_DEADLOCK FALSE
