SPECIFICATION FairSpec
CONSTANTS
  JobsMax = 3
  CamerasMax = 2
INVARIANTS
  StrayOnlyBesideClose
  ReadNeverWaits
  LinkIsReachable
PROPERTIES
  EveryJobEnds
CHECK_DEADLOCK FALSE
