CONSTANTS
  Pids <- MCPids
  Self = 1
SPECIFICATION FairSpec
INVARIANTS
  SparedAreSpared
  NoErrorMeansGone
PROPERTY TerminateReturns
\* Terminate has returned.
CHECK_DEADLOCK FALSE
