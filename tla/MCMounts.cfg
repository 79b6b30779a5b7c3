CONSTANTS
  Names <- MCNames
  HostTables <- MCHostTables
  Work <- MCWork
  MaxUint <- MCMaxUint
  Multipliers <- MCMultipliers
  Meminfos <- MCMeminfos
  Requests <- MCRequests
SPECIFICATION RootfsSpec
INVARIANTS
  EssentialsVisible
  OldRootGone
  OldRootClosed
  SizeHolds
PROPERTY HostUntouched
VIEW Remains
\* The run has ended, or its size was refused.
CHECK_DEADLOCK FALSE
