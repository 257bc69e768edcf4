SPECIFICATION DFairSpec
CONSTANTS
  Threads = {w, k1, k2}
  Reader = w
  Nobody = Nobody
  HostMsg = {a, b, c}
  LensMsg = {x, y}
  Plain = Plain
  Oversize = {c}
  CounterMax = 3
  WindowMax = 2
INVARIANTS
  WireOrder
  UplinkInSync
  DownlinkInSync
PROPERTIES
  UplinkDelivers
  DownlinkDelivers
  DisconnectIsReported
CHECK_DEADLOCK FALSE
