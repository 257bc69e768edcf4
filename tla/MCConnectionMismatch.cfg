SPECIFICATION Spec
CONSTANTS
  Attempts = 1
  ConnMax = 2
  ResumeMax = 2
  KeyMax = 1
  WindowMax = 1
INVARIANTS
  MismatchMeansReset
CHECK_DEADLOCK FALSE
