SPECIFICATION Spec
CONSTANTS
  Worker = w
  Keepers = {k1}
  Types = {q1}
  LongTypes = {}
  KeepAlive = KeepAlive
  States = {s1}
  None = None
  Plain = Plain
  CounterMax = 2
  WindowMax = 2
INVARIANTS
  AnswerIsOwn
CHECK_DEADLOCK FALSE
