SPECIFICATION Spec
CONSTANTS
  Worker = w
  Keepers = {}
  Types = {q1, q2}
  LongTypes = {}
  KeepAlive = KeepAlive
  States = {s1, s2}
  None = None
  Plain = Plain
  CounterMax = 3
  WindowMax = 2
SYMMETRY Symmetry
INVARIANTS
  AnswersConserved
  RepliesFit
  MirrorIsFresh
CHECK_DEADLOCK FALSE
