CONSTANTS
  Configs <- MCConfigs
  MaxRuns = 3
SPECIFICATION FairSpec
INVARIANTS
  CommitUninterruptible
  HarmOnlyAfterChecks
  SupervisorIsArmed
  FreshRoot
  ReturnUndoes
PROPERTY RunEnds
\* The operator stops invoking the program after MaxRuns.
CHECK_DEADLOCK FALSE
