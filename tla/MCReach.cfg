CONSTANTS
  Lines <- MCLines
SPECIFICATION Spec
INVARIANTS
  LoginPossible
  BannersTrue
  SupervisesWhatWasChecked
PROPERTIES
  GetsReachable
