SPECIFICATION FairSpec
CONSTANTS
  Worker = w
  Keepers = {k1, k2}
  Types = {q1, q2}
  LongTypes = {q2}
  KeepAlive = KeepAlive
  States = {s1}
  None = None
  Plain = Plain
  CounterMax = 2
  WindowMax = 1
INVARIANTS
  NoStrayKeeper
  KeepaliveLives
PROPERTIES
  CallsReturn
  StoppedKeepersEnd
CHECK_DEADLOCK FALSE
