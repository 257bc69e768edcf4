SPECIFICATION FairSpec
CONSTANTS
  IndMax = 3
  EchoMax = 2
INVARIANTS
  IndicationsIntact
  RaisedHoldsNoLink
PROPERTIES
  DeathIsNoticed
  CallsReturn
CHECK_DEADLOCK FALSE
