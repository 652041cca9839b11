SPECIFICATION Spec
CONSTANTS
  d1 = d1
  d2 = d2
  p1 = p1
  p2 = p2
  p3 = p3
  wifi = wifi
  eth = eth
  Dst = {d1, d2}
  Packet = {p1, p2}
  Iface = {wifi, eth}
  NoIface = NoIface
  DstOf <- AllToD1
  OifOf <- FirstOnEth
  RreqRateLimit = 9
  MaxQueueLen = 2
  QueueTimeouts = FALSE
  MaxHeard = 0
  RreqRetries = 1
  TtlStart = 1
  TtlIncrement = 1
  TtlThreshold = 1
  NetDiameter = 2
INVARIANT QueuePursued
CHECK_DEADLOCK FALSE
