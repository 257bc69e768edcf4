SPECIFICATION FairSpec
CONSTANTS
  Attempts = 2
  ConnMax = 3
  ResumeMax = 2
  KeyMax = 2
  WindowMax = 1
INVARIANTS
  MismatchIsReal
  StoredKeyWorks
  TransportsAccounted
PROPERTIES
  SessionsAgree
  ConnectReturns
CHECK_DEADLOCK FALSE
