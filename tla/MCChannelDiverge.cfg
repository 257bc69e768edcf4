SPECIFICATION DSpec
CONSTANTS
  Threads = {w, k1}
  Reader = w
  Nobody = Nobody
  HostMsg = {a, c}
  LensMsg = {x}
  Plain = Plain
  Oversize = {c}
  CounterMax = 3
  WindowMax = 1
INVARIANTS
  CountersAgree
CHECK_DEADLOCK FALSE
