SPECIFICATION Spec
CONSTANTS
  d1 = d1
  d2 = d2
  p1 = p1
  p2 = p2
  p3 = p3
  wifi = wifi
  eth = eth
  Dst = {d1, d2}
  Packet = {p1, p2, p3}
  Iface = {wifi}
  NoIface = NoIface
  DstOf <- TwoToD1
  OifOf <- AnyDevice
  RreqRateLimit = 1
  MaxQueueLen = 2
  QueueTimeouts = TRUE
  MaxHeard = 1
  RreqRetries = 1
  TtlStart = 1
  TtlIncrement = 1
  TtlThreshold = 1
  NetDiameter = 2
INVARIANTS TypeOK QueuePursued
PROPERTIES ImplementsBuffer EveryPacketSettled RetryDefined RetriesStop
CHECK_DEADLOCK FALSE
